---- MODULE Spec2Model ----
(***************************************************************************)
(* A model of the vandargo gateway client (client.go), its in-memory       *)
(* transaction store (storage.go) and the request validators               *)
(* (validation.go).                                                        *)
(*                                                                         *)
(* Amounts are counted in thousands of Rials, because the model checker's  *)
(* integers are 32 bits wide and MaxAmount (5 000 000 000 Rials) is not:   *)
(* MinAmount = 10 stands for 10 000 Rials, MaxAmount = 5 000 000 for       *)
(* 5 000 000 000 Rials.  Only the order of amounts is used.                *)
(*                                                                         *)
(* Time is a logical clock `now`; every client call happens at one instant *)
(* and the clock has advanced when the next call starts.                   *)
(*                                                                         *)
(* The HTTP side (middleware.go, handlers.go: RegisterRoutes, crypto.go)   *)
(* is modelled by the handlers Chain builds and by one action that serves  *)
(* a request through such a handler.  Its clock counts nanoseconds; the    *)
(* innermost handler only records that it ran and answers with a status.   *)
(***************************************************************************)
EXTENDS Integers, Sequences, FiniteSets, TLC

VARIABLES
    transactions,   \* MemoryStorage.transactions: token -> Transaction
    now,            \* time.Now(), a logical clock
    last,           \* the most recent client call: arguments, gateway reply, result
    config,         \* the Config the client and the middlewares were built with
    router,         \* the handlers registered with the router: path -> handler
    clients,        \* RateLimitMiddleware's clients maps: limiter -> ip -> client
    clock,          \* time.Now() of the HTTP server, in nanoseconds
    served,         \* the HTTP exchanges so far, oldest first
    goroutines,     \* the goroutines running concurrently: what each is doing
    mutex,          \* MemoryStorage.mutex: the writer and the readers holding it
    verified,       \* history: the tokens the gateway has verified successfully
    objects,        \* the Transaction structs callers hold: pointer -> struct
    maps            \* the Metadata maps on the heap: address -> map

vars ==
    <<transactions, now, last, config, router, clients, clock, served,
      goroutines, mutex, verified,
      objects, maps>>

----------------------------------------------------------------------------
(* Bounds and program constants *)

MaxTime == 3            \* number of client calls in one behaviour

MinAmount == 10         \* 10 000 Rials, in thousands
MaxAmount == 5000000    \* 5 000 000 000 Rials, in thousands
MaxRetries == 3         \* DefaultConfig().MaxRetries

APIKey == "api_key"
CallbackURL == "https://test.com/callback"

Tokens == {"", "tok1", "tok2"}
Amounts == {9, 10, 5000001}
StatusCodes == {200, 299, 300, 404}

Nil == [nil |-> TRUE]

----------------------------------------------------------------------------
(* fmt.Sprintf("%d", n) for n >= 0 *)

Digit(d) ==
    CASE d = 0 -> "0" [] d = 1 -> "1" [] d = 2 -> "2" [] d = 3 -> "3"
      [] d = 4 -> "4" [] d = 5 -> "5" [] d = 6 -> "6" [] d = 7 -> "7"
      [] d = 8 -> "8" [] d = 9 -> "9"

RECURSIVE SprintfD(_)
SprintfD(n) == IF n < 10 THEN Digit(n) ELSE SprintfD(n \div 10) \o Digit(n % 10)

generateRequestID(t) == SprintfD(t)

----------------------------------------------------------------------------
(* JSON values and encoding/json's decoding of one field into a Go type *)

JNum(n)  == [t |-> "num", n |-> n]
JBool(b) == [t |-> "bool", b |-> b]
JStr(s)  == [t |-> "str", s |-> s]
JAbsent  == [t |-> "absent"]

DecodeInt(j) ==
    CASE j.t = "absent" -> [ok |-> TRUE, v |-> 0]
      [] j.t = "num"    -> [ok |-> TRUE, v |-> j.n]
      [] OTHER          -> [ok |-> FALSE, v |-> 0]

DecodeBool(j) ==
    CASE j.t = "absent" -> [ok |-> TRUE, v |-> FALSE]
      [] j.t = "bool"   -> [ok |-> TRUE, v |-> j.b]
      [] OTHER          -> [ok |-> FALSE, v |-> FALSE]

DecodeString(j) ==
    CASE j.t = "absent" -> [ok |-> TRUE, v |-> ""]
      [] j.t = "str"    -> [ok |-> TRUE, v |-> j.s]
      [] OTHER          -> [ok |-> FALSE, v |-> ""]

----------------------------------------------------------------------------
(* Response bodies the gateway can send.  `raw` is the body's text.        *)

BodyText ==
    [kind |-> "text", raw |-> "Bad Gateway",
     status |-> JAbsent, token |-> JAbsent, message |-> JAbsent, code |-> JAbsent,
     transId |-> JAbsent, cardNumber |-> JAbsent, cid |-> JAbsent]

\* a success body: status 1, the token, transId 7, a masked card number, a cid
BodyOK(tok) ==
    [kind |-> "object", raw |-> "{status:1,token:" \o tok \o "}",
     status |-> JNum(1), token |-> JStr(tok), message |-> JStr("ok"), code |-> JAbsent,
     transId |-> JNum(7), cardNumber |-> JStr("603799******1234"), cid |-> JStr("C1D")]

\* a failure body: status 0, a message and a numeric code
BodyDeclined ==
    [kind |-> "object", raw |-> "{status:0,message:declined,code:422}",
     status |-> JNum(0), token |-> JAbsent, message |-> JStr("declined"),
     code |-> JNum(422),
     transId |-> JAbsent, cardNumber |-> JAbsent, cid |-> JAbsent]

\* an error payload: a message and a string code, no status
BodyError ==
    [kind |-> "object", raw |-> "{message:denied,code:E42}",
     status |-> JAbsent, token |-> JAbsent, message |-> JStr("denied"),
     code |-> JStr("E42"),
     transId |-> JAbsent, cardNumber |-> JAbsent, cid |-> JAbsent]

\* a refund success body: status true
BodyRefunded ==
    [kind |-> "object", raw |-> "{status:true,message:refunded}",
     status |-> JBool(TRUE), token |-> JAbsent, message |-> JStr("refunded"),
     code |-> JAbsent,
     transId |-> JAbsent, cardNumber |-> JAbsent, cid |-> JAbsent]

\* a refund failure body: status false
BodyNotRefunded ==
    [kind |-> "object", raw |-> "{status:false,message:already refunded}",
     status |-> JBool(FALSE), token |-> JAbsent, message |-> JStr("already refunded"),
     code |-> JAbsent,
     transId |-> JAbsent, cardNumber |-> JAbsent, cid |-> JAbsent]

Bodies == {BodyText, BodyOK("tok1"), BodyDeclined, BodyError, BodyRefunded, BodyNotRefunded}
InitBodies == Bodies \cup {BodyOK(t) : t \in Tokens}

\* What httpClient.Do and the read of the response body can yield.
Reply(transport, code, body) == [transport |-> transport, code |-> code, body |-> body]
NoReply == Reply("none", 0, BodyText)
DialError == Reply("dial_error", 0, BodyText)
ReadError == Reply("read_error", 200, BodyText)
RepliesWith(bodies) ==
    {DialError, ReadError} \cup {Reply("ok", c, b) : c \in StatusCodes, b \in bodies}

----------------------------------------------------------------------------
(* json.Unmarshal into the typed responses (models.go) *)

UnmarshalAPIError(body) ==
    LET m == DecodeString(body.message)
        c == DecodeString(body.code)
    IN  IF body.kind = "object" /\ m.ok /\ c.ok
        THEN [ok |-> TRUE, v |-> [Message |-> m.v, Code |-> c.v]]
        ELSE [ok |-> FALSE, v |-> Nil]

UnmarshalPaymentInitResponse(body) ==
    LET s == DecodeInt(body.status)
        t == DecodeString(body.token)
        m == DecodeString(body.message)
    IN  IF body.kind = "object" /\ s.ok /\ t.ok /\ m.ok
        THEN [ok |-> TRUE, v |-> [Status |-> s.v, Token |-> t.v, Message |-> m.v]]
        ELSE [ok |-> FALSE, v |-> Nil]

UnmarshalPaymentVerifyResponse(body) ==
    LET s  == DecodeInt(body.status)
        ti == DecodeInt(body.transId)
        cn == DecodeString(body.cardNumber)
        ci == DecodeString(body.cid)
        m  == DecodeString(body.message)
    IN  IF body.kind = "object" /\ s.ok /\ ti.ok /\ cn.ok /\ ci.ok /\ m.ok
        THEN [ok |-> TRUE,
              v |-> [Status |-> s.v, TransID |-> ti.v, CardNumber |-> cn.v,
                     CID |-> ci.v, Message |-> m.v]]
        ELSE [ok |-> FALSE, v |-> Nil]

UnmarshalTransactionInfoResponse(body) ==
    LET s  == DecodeInt(body.status)
        ti == DecodeInt(body.transId)
        cn == DecodeString(body.cardNumber)
        ci == DecodeString(body.cid)
        c  == DecodeInt(body.code)
        m  == DecodeString(body.message)
    IN  IF body.kind = "object" /\ s.ok /\ ti.ok /\ cn.ok /\ ci.ok /\ c.ok /\ m.ok
        THEN [ok |-> TRUE,
              v |-> [Status |-> s.v, TransID |-> ti.v, CardNumber |-> cn.v,
                     CID |-> ci.v, Code |-> c.v, Message |-> m.v]]
        ELSE [ok |-> FALSE, v |-> Nil]

UnmarshalRefundResponse(body) ==
    LET s == DecodeBool(body.status)
        m == DecodeString(body.message)
    IN  IF body.kind = "object" /\ s.ok /\ m.ok
        THEN [ok |-> TRUE, v |-> [Status |-> s.v, Message |-> m.v]]
        ELSE [ok |-> FALSE, v |-> Nil]

----------------------------------------------------------------------------
(* Errors.  `api` is the *APIError an error wraps, Nil when it wraps none;  *)

(* `fields` are the fields a validation error names.                       *)

NoError == [kind |-> "nil", api |-> Nil, fields |-> {}]
Err(kind) == [kind |-> kind, api |-> Nil, fields |-> {}]
\* fmt.Errorf("...: %w", err) keeps the error it wraps
Wrap(err) == err

\* makeRequest taking status 300 for a success
makeRequestUpTo300(reply) ==
    IF reply.transport = "dial_error"
    THEN [respBody |-> Nil, statusCode |-> 0, err |-> Err("request_failed"), calls |-> 1]
    ELSE IF reply.transport = "read_error"
    THEN [respBody |-> Nil, statusCode |-> reply.code, err |-> Err("read_failed"),
          calls |-> 1]
    ELSE IF reply.code < 200 \/ reply.code > 300
    THEN LET parsed == UnmarshalAPIError(reply.body)
             apiErr == IF parsed.ok THEN parsed.v
                       ELSE [Message |-> reply.body.raw, Code |-> SprintfD(reply.code)]
         IN  [respBody |-> Nil, statusCode |-> reply.code,
              err |-> [kind |-> "api", api |-> apiErr, fields |-> {}], calls |-> 1]
    ELSE [respBody |-> reply.body, statusCode |-> reply.code, err |-> NoError,
          calls |-> 1]

\* makeRequest repeating a failed httpClient.Do up to MaxRetries times
makeRequestWithRetry(reply) ==
    IF reply.transport = "dial_error"
    THEN [respBody |-> Nil, statusCode |-> 0, err |-> Err("request_failed"),
          calls |-> 1 + MaxRetries]
    ELSE IF reply.transport = "read_error"
    THEN [respBody |-> Nil, statusCode |-> reply.code, err |-> Err("read_failed"),
          calls |-> 1]
    ELSE IF reply.code < 200 \/ reply.code >= 300
    THEN LET parsed == UnmarshalAPIError(reply.body)
             apiErr == IF parsed.ok THEN parsed.v
                       ELSE [Message |-> reply.body.raw, Code |-> SprintfD(reply.code)]
         IN  [respBody |-> Nil, statusCode |-> reply.code,
              err |-> [kind |-> "api", api |-> apiErr, fields |-> {}], calls |-> 1]
    ELSE [respBody |-> reply.body, statusCode |-> reply.code, err |-> NoError,
          calls |-> 1]

\* Client.makeRequest: one call of httpClient.Do, then the status check
makeRequest(reply) ==
    IF reply.transport = "dial_error"
    THEN [respBody |-> Nil, statusCode |-> 0, err |-> Err("request_failed"), calls |-> 1]
    ELSE IF reply.transport = "read_error"
    THEN [respBody |-> Nil, statusCode |-> reply.code, err |-> Err("read_failed"),
          calls |-> 1]
    ELSE IF reply.code < 200 \/ reply.code >= 300
    THEN LET parsed == UnmarshalAPIError(reply.body)
             apiErr == IF parsed.ok THEN parsed.v
                       ELSE [Message |-> reply.body.raw, Code |-> SprintfD(reply.code)]
         IN  [respBody |-> Nil, statusCode |-> reply.code,
              err |-> [kind |-> "api", api |-> apiErr, fields |-> {}], calls |-> 1]
    ELSE [respBody |-> reply.body, statusCode |-> reply.code, err |-> NoError,
          calls |-> 1]

----------------------------------------------------------------------------
(* MemoryStorage (storage.go).  A store is a function from the tokens that *)
(* have a record to that record; records are held and handed out by value. *)

NoTransactions == [t \in {} |-> Nil]

Transaction(id, token, amount, status, at) ==
    [ID |-> id, Token |-> token, Amount |-> amount, Status |-> status,
     TransactionID |-> 0, CardNumber |-> "", CID |-> "", Metadata |-> 0,
     CreatedAt |-> at, UpdatedAt |-> at, CompletedAt |-> Nil]

StoreTransaction(store, tx) ==
    IF tx = Nil
    THEN [err |-> Err("transaction cannot be nil"), store |-> store]
    ELSE IF tx.ID = ""
    THEN [err |-> Err("transaction ID cannot be empty"), store |-> store]
    ELSE [err |-> NoError, store |-> (tx.Token :> tx) @@ store]

GetTransaction(store, token) ==
    IF token = ""
    THEN [err |-> Err("token cannot be empty"), tx |-> Nil]
    ELSE IF token \notin DOMAIN store
    THEN [err |-> Err("transaction not found"), tx |-> Nil]
    ELSE [err |-> NoError, tx |-> store[token]]

\* UpdateTransaction replacing the whole map by the one record
UpdateTransactionOnlyRecord(store, tx, t) ==
    IF tx = Nil
    THEN [err |-> Err("transaction cannot be nil"), store |-> store]
    ELSE IF tx.ID = ""
    THEN [err |-> Err("transaction ID cannot be empty"), store |-> store]
    ELSE IF tx.Token \notin DOMAIN store
    THEN [err |-> Err("transaction not found"), store |-> store]
    ELSE [err |-> NoError, store |-> (tx.Token :> [tx EXCEPT !.UpdatedAt = t])]

\* UpdateTransaction storing the record of a token that has none
UpdateTransactionUpserting(store, tx, t) ==
    IF tx = Nil
    THEN [err |-> Err("transaction cannot be nil"), store |-> store]
    ELSE IF tx.ID = ""
    THEN [err |-> Err("transaction ID cannot be empty"), store |-> store]
    ELSE [err |-> NoError,
          store |-> (tx.Token :> [tx EXCEPT !.UpdatedAt = t]) @@ store]

UpdateTransaction(store, tx, t) ==
    IF tx = Nil
    THEN [err |-> Err("transaction cannot be nil"), store |-> store]
    ELSE IF tx.ID = ""
    THEN [err |-> Err("transaction ID cannot be empty"), store |-> store]
    ELSE IF tx.Token \notin DOMAIN store
    THEN [err |-> Err("transaction not found"), store |-> store]
    ELSE [err |-> NoError,
          store |-> (tx.Token :> [tx EXCEPT !.UpdatedAt = t]) @@ store]

(* The client holds a StorageInterface.  `fault` is a backend other than   *)
(* MemoryStorage failing the call: it returns an error and writes nothing. *)
StorageStore(fault, store, tx) ==
    IF fault THEN [err |-> Err("storage unavailable"), store |-> store]
    ELSE StoreTransaction(store, tx)

StorageUpdate(fault, store, tx, t) ==
    IF fault THEN [err |-> Err("storage unavailable"), store |-> store]
    ELSE UpdateTransaction(store, tx, t)

----------------------------------------------------------------------------
(* The client's operations (client.go).  Each yields the payload and error *)
(* it returns, the store it leaves, the number of httpClient.Do calls it   *)
(* made and the error of its storage call (NoError when it made none).     *)

Result(payload, err, store, calls, storeErr) ==
    [payload |-> payload, err |-> err, store |-> store, calls |-> calls,
     storeErr |-> storeErr]

\* InitiatePayment failing when the storage call failed
InitStoredOrFail(resp, st, calls) ==
    IF st.err # NoError THEN Result(Nil, Wrap(st.err), st.store, calls, st.err)
    ELSE Result(resp, NoError, st.store, calls, st.err)

\* InitiatePayment's return once the storage call has been made
InitStored(resp, st, calls) == Result(resp, NoError, st.store, calls, st.err)

\* VerifyPayment failing when the token has no record in the store
VerifyNotFoundFails(resp, store, calls) ==
    Result(Nil, Err("transaction not found"), store, calls, NoError)

\* VerifyPayment's return when the token has no record in the store
VerifyNotFound(resp, store, calls) == Result(resp, NoError, store, calls, NoError)

InitiatePayment(store, t, amount, reply, fault) ==
    LET r == makeRequest(reply)
        d == UnmarshalPaymentInitResponse(r.respBody)
    IN  IF r.err # NoError
        THEN Result(Nil, Wrap(r.err), store, r.calls, NoError)
        ELSE IF ~d.ok
        THEN Result(Nil, Err("parse"), store, r.calls, NoError)
        ELSE IF d.v.Status # 1
        THEN Result(d.v, Err("payment initialization failed"), store, r.calls, NoError)
        ELSE LET tx == Transaction(generateRequestID(t), d.v.Token, amount, "INIT", t)
                 st == StorageStore(fault, store, tx)
             IN  InitStored(d.v, st, r.calls)

\* VerifyPayment without the check of the status flag
VerifyPaymentIgnoringStatus(store, t, token, reply, fault) ==
    LET r == makeRequest(reply)
        d == UnmarshalPaymentVerifyResponse(r.respBody)
    IN  IF r.err # NoError
        THEN Result(Nil, Wrap(r.err), store, r.calls, NoError)
        ELSE IF ~d.ok
        THEN Result(Nil, Err("parse"), store, r.calls, NoError)
        ELSE LET g == GetTransaction(store, token)
             IN  IF g.err = NoError
                 THEN LET tx == [g.tx EXCEPT !.Status = "PAID",
                                             !.TransactionID = d.v.TransID,
                                             !.CardNumber = d.v.CardNumber,
                                             !.CID = d.v.CID,
                                             !.UpdatedAt = t,
                                             !.CompletedAt = [at |-> t]]
                          st == StorageUpdate(fault, store, tx, t)
                      IN  Result(d.v, NoError, st.store, r.calls, st.err)
                 ELSE VerifyNotFound(d.v, store, r.calls)

VerifyPayment(store, t, token, reply, fault) ==
    LET r == makeRequest(reply)
        d == UnmarshalPaymentVerifyResponse(r.respBody)
    IN  IF r.err # NoError
        THEN Result(Nil, Wrap(r.err), store, r.calls, NoError)
        ELSE IF ~d.ok
        THEN Result(Nil, Err("parse"), store, r.calls, NoError)
        ELSE IF d.v.Status # 1
        THEN Result(d.v, Err("payment verification failed"), store, r.calls, NoError)
        ELSE LET g == GetTransaction(store, token)
             IN  IF g.err = NoError
                 THEN LET tx == [g.tx EXCEPT !.Status = "PAID",
                                             !.TransactionID = d.v.TransID,
                                             !.CardNumber = d.v.CardNumber,
                                             !.CID = d.v.CID,
                                             !.UpdatedAt = t,
                                             !.CompletedAt = [at |-> t]]
                          st == StorageUpdate(fault, store, tx, t)
                      IN  Result(d.v, NoError, st.store, r.calls, st.err)
                 ELSE VerifyNotFound(d.v, store, r.calls)

GetTransactionInfo(store, token, reply) ==
    IF token = ""
    THEN Result(Nil, Err("token is required"), store, 0, NoError)
    ELSE LET r == makeRequest(reply)
             d == UnmarshalTransactionInfoResponse(r.respBody)
         IN  IF r.err # NoError
             THEN Result(Nil, Wrap(r.err), store, r.calls, NoError)
             ELSE IF ~d.ok
             THEN Result(Nil, Err("parse"), store, r.calls, NoError)
             ELSE Result(d.v, NoError, store, r.calls, NoError)

RefundPayment(store, transactionID, amount, reply) ==
    LET r == makeRequest(reply)
        d == UnmarshalRefundResponse(r.respBody)
    IN  IF r.err # NoError
        THEN Result(Nil, Wrap(r.err), store, r.calls, NoError)
        ELSE IF ~d.ok
        THEN Result(Nil, Err("parse"), store, r.calls, NoError)
        ELSE IF ~d.v.Status
        THEN Result(d.v, Err("payment refund failed"), store, r.calls, NoError)
        ELSE Result(d.v, NoError, store, r.calls, NoError)

----------------------------------------------------------------------------
(* The validators (validation.go) and the /payments/init handler            *)
(* (handlers.go).  A validator yields the sequence of violated fields, the  *)
(* empty sequence standing for a nil error.                                 *)

\* urlRegex: of the callback URLs of this model, only the https URL matches
urlRegexMatch(u) == u = CallbackURL

\* Descriptions, mobile numbers and card numbers are sequences of characters.
Chars(n, c) == [i \in 1..n |-> c]
IsDigit(c) == c \in {"0", "1", "2", "3", "4", "5", "6", "7", "8", "9"}

MaxDescriptionLength == 255

\* mobileRegex ^09[0-9]{9}$
mobileRegexMatch(text) ==
    /\ Len(text) = 11
    /\ text[1] = "0" /\ text[2] = "9"
    /\ \A i \in 3..11 : IsDigit(text[i])

\* cardNumberRegex ^[0-9]{16}$
cardNumberRegexMatch(text) == Len(text) = 16 /\ \A i \in 1..16 : IsDigit(text[i])

\* sanitizeCardNumber: the digits of the input, in order
sanitizeCardNumber(cardNumber) == SelectSeq(cardNumber, IsDigit)

\* a masking that takes every character of the input for a digit
MaskCardNumberUnsanitized(cardNumber) ==
    IF Len(cardNumber) < 4
    THEN Chars(4, "*")
    ELSE Chars(Len(cardNumber) - 4, "*")
         \o SubSeq(cardNumber, Len(cardNumber) - 3, Len(cardNumber))

MaskCardNumber(cardNumber) ==
    LET cleanCard == sanitizeCardNumber(cardNumber)
    IN  IF Len(cleanCard) < 4
        THEN Chars(4, "*")
        ELSE Chars(Len(cleanCard) - 4, "*")
             \o SubSeq(cleanCard, Len(cleanCard) - 3, Len(cleanCard))

FieldError(field, message) == [Field |-> field, Message |-> message]

\* a validator that reports only the first violated field
FirstOnly(errs) == IF errs = <<>> THEN errs ELSE <<Head(errs)>>

ValidateRefundRequestFirstOnly(req) ==
    FirstOnly((IF req.TransactionID = ""
               THEN <<FieldError("transaction_id", "transaction ID is required")>>
               ELSE <<>>)
              \o
              (IF req.Amount < 0
               THEN <<FieldError("amount", "amount must be a positive number")>>
               ELSE <<>>))

ValidateRefundRequest(req) ==
    (IF req.TransactionID = ""
     THEN <<FieldError("transaction_id", "transaction ID is required")>> ELSE <<>>)
    \o
    (IF req.Amount < 0
     THEN <<FieldError("amount", "amount must be a positive number")>> ELSE <<>>)

ValidatePaymentInitRequest(req) ==
    (IF req.Amount < MinAmount
     THEN <<FieldError("amount", "amount must be at least MinAmount Rials")>> ELSE <<>>)
    \o
    (IF req.Amount > MaxAmount
     THEN <<FieldError("amount", "amount must be at most MaxAmount Rials")>> ELSE <<>>)
    \o
    (IF req.CallbackURL = ""
     THEN <<FieldError("callback_url", "callback URL is required")>>
     ELSE IF ~urlRegexMatch(req.CallbackURL)
     THEN <<FieldError("callback_url", "callback URL must be a valid HTTP(S) URL")>>
     ELSE <<>>)
    \o
    (IF Len(req.Description) > MaxDescriptionLength
     THEN <<FieldError("description", "description must be at most 255 characters")>>
     ELSE <<>>)
    \o
    (IF req.Mobile # <<>> /\ ~mobileRegexMatch(req.Mobile)
     THEN <<FieldError("mobile", "mobile must be a valid Iranian mobile number")>>
     ELSE <<>>)
    \o
    (IF /\ req.ValidCardNumber # <<>>
        /\ ~cardNumberRegexMatch(sanitizeCardNumber(req.ValidCardNumber))
     THEN <<FieldError("valid_card_number", "valid card number must be a 16-digit number")>>
     ELSE <<>>)

\* ValidationErrors.Error()
ValidationErrorsError(errs) == "validation errors (" \o SprintfD(Len(errs)) \o " errors)"

ValidationErr(errs) ==
    [kind |-> "validation", api |-> Nil, fields |-> {errs[i].Field : i \in DOMAIN errs}]

\* respondWithError: the status code and the JSON object written
ErrorResponse(statusCode, message) ==
    [httpStatus |-> statusCode, status |-> JBool(FALSE), message |-> message]

handlePaymentInit(store, t, req, reply, fault) ==
    LET errs == ValidatePaymentInitRequest(req)
        r == makeRequest(reply)
        d == UnmarshalPaymentInitResponse(r.respBody)
    IN  IF errs # <<>>
        THEN Result(ErrorResponse(400, ValidationErrorsError(errs)), ValidationErr(errs),
                    store, 0, NoError)
        ELSE IF r.err # NoError
        THEN Result(ErrorResponse(500, "Failed to initialize payment"), r.err,
                    store, r.calls, NoError)
        ELSE IF ~d.ok
        THEN Result(ErrorResponse(500, "Failed to parse API response"), Err("parse"),
                    store, r.calls, NoError)
        ELSE IF d.v.Status # 1
        THEN Result(ErrorResponse(r.statusCode, d.v.Message),
                    Err("payment failed"), store, r.calls, NoError)
        ELSE LET tx == Transaction(generateRequestID(t), d.v.Token, req.Amount, "INIT", t)
                 st == StorageStore(fault, store, tx)
             IN  Result([httpStatus |-> 200, status |-> JNum(d.v.Status),
                         message |-> d.v.Message],
                        NoError, st.store, r.calls, st.err)

----------------------------------------------------------------------------
(* Texts.  A header value, a remote address or any other text the          *)
(* middlewares take apart is a sequence of tokens; a token is a word or    *)
(* one of the separators blank, comma and colon.                           *)

RECURSIVE Str(_)
Str(text) == IF text = <<>> THEN "" ELSE Head(text) \o Str(Tail(text))

\* strings.Split(text, sep)
RECURSIVE Split(_, _)
Split(text, sep) ==
    IF \A i \in 1..Len(text) : text[i] # sep
    THEN <<text>>
    ELSE LET i == CHOOSE k \in 1..Len(text) :
                      text[k] = sep /\ \A j \in 1..(k - 1) : text[j] # sep
         IN  <<SubSeq(text, 1, i - 1)>> \o Split(SubSeq(text, i + 1, Len(text)), sep)

\* strings.TrimSpace(text)
RECURSIVE TrimSpace(_)
TrimSpace(text) ==
    IF text = <<>> THEN text
    ELSE IF Head(text) = " " THEN TrimSpace(Tail(text))
    ELSE IF text[Len(text)] = " " THEN TrimSpace(SubSeq(text, 1, Len(text) - 1))
    ELSE text

\* net.SplitHostPort(addr) for an IPv4 host:port
SplitHostPort(addr) ==
    IF Len(addr) = 3 /\ addr[2] = ":"
    THEN [ok |-> TRUE, host |-> addr[1]]
    ELSE [ok |-> FALSE, host |-> ""]

\* strconv.FormatInt(n, 10) and strconv.ParseInt(s, 10, 64) on canonical decimals
FormatInt(n) == IF n < 0 THEN "-" \o SprintfD(0 - n) ELSE SprintfD(n)

MaxSkew == 300          \* seconds a timestamp may differ from the clock

ParseInt(s) ==
    IF \E n \in (0 - MaxSkew - 1)..(MaxSkew + 1) : FormatInt(n) = s
    THEN [ok |-> TRUE,
          v |-> CHOOSE n \in (0 - MaxSkew - 1)..(MaxSkew + 1) : FormatInt(n) = s]
    ELSE [ok |-> FALSE, v |-> 0]

Second == 1000000000    \* time.Second, in nanoseconds

\* time.Time.Unix() of a clock reading in nanoseconds
Unix(t) == t \div Second

----------------------------------------------------------------------------
(* crypto.go.  Data, keys and signatures are texts (sequences of words or  *)
(* characters).  HMAC pads a key shorter than the hash's block with zero   *)
(* bytes; the hex digest of HMAC-SHA256 is a text determined by the padded *)
(* key and the data, different for different padded keys or data.  Keys    *)
(* longer than the block (64 bytes) are not modelled.                      *)

NUL == "\\0"   \* the zero byte

\* hmac.New(sha256.New, key): the key filled up with zero bytes, written
\* without the zero bytes at its end
RECURSIVE HMACKey(_)
HMACKey(key) ==
    IF key # <<>> /\ key[Len(key)] = NUL
    THEN HMACKey(SubSeq(key, 1, Len(key) - 1))
    ELSE key

\* hex.EncodeToString(h.Sum(nil))
SignData(data, key) == <<"hmac-sha256(", Str(HMACKey(key)), ")(", Str(data), ")">>

\* a comparison of the signature's first character only
VerifySignaturePrefix(signature, data, key) ==
    signature # <<>> /\ Head(signature) = Head(SignData(data, key))

\* subtle.ConstantTimeCompare(signature, expectedSignature) == 1
VerifySignature(signature, data, key) == signature = SignData(data, key)

\* VerifyCallbackIP(ip, allowList)
VerifyCallbackIP(ip, allowList) ==
    \/ Len(allowList) = 0
    \/ \E i \in 1..Len(allowList) : ip = allowList[i]

----------------------------------------------------------------------------
(* HTTP requests, response writers and handlers. *)

\* the headers are X-Forwarded-For, X-Real-IP, Authorization, X-Request-ID,
\* X-Signature and X-Timestamp
Request(method, path, addr, xff, realIP, auth, id, sig, ts) ==
    [Method |-> method, Path |-> path, RemoteAddr |-> addr,
     XForwardedFor |-> xff, XRealIP |-> realIP,
     Authorization |-> auth, XRequestID |-> id,
     XSignature |-> sig, XTimestamp |-> ts]

\* A body written to the ResponseWriter: a text, or the JSON object that
\* json.Marshal made of a map with the keys status and message
TextBody(text) == [kind |-> "text", raw |-> text]
JSONBody(status, message) ==
    [kind |-> "object", raw |-> "json", status |-> JBool(status), message |-> JStr(message)]

\* http.ResponseWriter: status 0 until WriteHeader
NewWriter ==
    [status |-> 0, body |-> TextBody(""),
     header |-> [XRequestID |-> "", ContentType |-> "", Security |-> FALSE]]

\* An exchange: the request, its context, the response writer, the steps
\* that ran and the rate limiters' records.
Exchange(r, cl) ==
    [r |-> r, at |-> 0, ctx |-> [request_id |-> ""], w |-> NewWriter,
     trace |-> <<>>, clients |-> cl, panicked |-> FALSE]

Enter(x, name) ==
    [x EXCEPT !.trace = Append(@, [name |-> name, request_id |-> x.ctx.request_id])]

\* http.Error(w, message, code)
HTTPError(x, message, code) ==
    [x EXCEPT !.w.status = code,
              !.w.body = TextBody(message \o "\n"),
              !.w.header.ContentType = "text/plain; charset=utf-8"]

\* getClientIP(r)
getClientIP(r) ==
    IF Str(r.XForwardedFor) # ""
    THEN Str(TrimSpace(Split(r.XForwardedFor, ",")[1]))
    ELSE IF Str(r.XRealIP) # ""
    THEN Str(r.XRealIP)
    ELSE LET hp == SplitHostPort(r.RemoteAddr)
         IN  IF hp.ok THEN hp.host ELSE Str(r.RemoteAddr)

\* Config and the two ConfigInterface implementations of config.go
Config(impl, ipAllowList) ==
    [impl |-> impl, APIKey |-> APIKey, IPAllowList |-> ipAllowList]

DefaultConfig == Config("configImpl", <<>>)

\* Middleware values and handlers built from them
Middleware(name, id, limit, window) ==
    [mw |-> name, id |-> id, limit |-> limit, window |-> window]

RequestIDMiddleware == Middleware("RequestID", "", 0, 0)
LoggingMiddleware == Middleware("Logging", "", 0, 0)
SecurityHeadersMiddleware == Middleware("SecurityHeaders", "", 0, 0)
RateLimitMiddleware(id, limit, window) == Middleware("RateLimit", id, limit, window)
IPFilterMiddleware == Middleware("IPFilter", "", 0, 0)
AuthMiddleware == Middleware("Auth", "", 0, 0)
ValidateSignatureMiddleware == Middleware("ValidateSignature", "", 0, 0)

HandlerFunc(name) == [kind |-> "handler", name |-> name]
Wrapped(m, next) == [kind |-> "middleware", m |-> m, next |-> next]

RECURSIVE ChainLoop(_, _, _)

\* a Chain that wraps the handler in the first middleware first
ChainReversed(handler, middlewares) ==
    ChainLoop(handler,
              [i \in 1..Len(middlewares) |-> middlewares[Len(middlewares) + 1 - i]],
              Len(middlewares))

\* Chain(handler, middlewares...)
ChainLoop(handler, middlewares, i) ==
    IF i < 1 THEN handler
    ELSE ChainLoop(Wrapped(middlewares[i], handler), middlewares, i - 1)

Chain(handler, middlewares) == ChainLoop(handler, middlewares, Len(middlewares))

----------------------------------------------------------------------------
(* Serving a request.  env holds what a step reads from outside the        *)
(* exchange: the config, the clock and the status the innermost handler    *)
(* answers with.                                                           *)

RECURSIVE Serve(_, _, _)

\* respondWithJSON(w, statusCode, data)
respondWithJSON(x, statusCode, data) ==
    [x EXCEPT !.w.status = statusCode,
              !.w.body = data,
              !.w.header.ContentType = "application/json"]

\* respondWithError(w, statusCode, err, message): APIErrorResponse(err) with
\* the message replaced
respondWithError(x, statusCode, message) ==
    respondWithJSON(x, statusCode, JSONBody(FALSE, message))

\* the innermost handler, one of the Client.handle* methods: it answers an
\* error through respondWithError and a success through respondWithJSON
ServeHandler(h, x, env) ==
    IF env.handlerStatus >= 400
    THEN respondWithError(Enter(x, h.name), env.handlerStatus, "Invalid request")
    ELSE respondWithJSON(Enter(x, h.name), env.handlerStatus, JSONBody(TRUE, "ok"))

\* a middleware that ignores the inbound X-Request-ID
ServeRequestIDAlwaysNew(next, x, env) ==
    Serve(next,
          [Enter(x, "RequestID") EXCEPT
              !.w.header.XRequestID = generateRequestID(env.now),
              !.ctx.request_id = generateRequestID(env.now)],
          env)

ServeRequestID(next, x, env) ==
    LET requestID == IF Str(x.r.XRequestID) = ""
                     THEN generateRequestID(env.now)
                     ELSE Str(x.r.XRequestID)
    IN  Serve(next,
              [Enter(x, "RequestID") EXCEPT !.w.header.XRequestID = requestID,
                                            !.ctx.request_id = requestID],
              env)

ServeLogging(next, x, env) == Serve(next, Enter(x, "Logging"), env)

ServeSecurityHeaders(next, x, env) ==
    Serve(next, [Enter(x, "SecurityHeaders") EXCEPT !.w.header.Security = TRUE], env)

NoClients == [ip \in {} |-> Nil]

Put(map, key, value) ==
    [k \in DOMAIN map \cup {key} |-> IF k = key THEN value ELSE map[k]]

\* a limiter that never lets a count expire
WindowPassedNever(exists, lastSeen, t, window) == ~exists

\* line 86: no record yet, or the window has passed since lastSeen
WindowPassed(exists, lastSeen, t, window) == ~exists \/ t - lastSeen > window

\* a limiter that lets one request too many through
LimitExceededOffByOne(count, limit) == count > limit + 1

\* line 101
LimitExceeded(count, limit) == count > limit

ServeRateLimit(m, next, x, env) ==
    LET ip == getClientIP(x.r)
        map == x.clients[m.id]
        exists == ip \in DOMAIN map
        y == Enter(x, "RateLimit")
    IN  IF WindowPassed(exists, IF exists THEN map[ip].lastSeen ELSE 0, env.now, m.window)
        THEN Serve(next,
                   [y EXCEPT !.clients[m.id] =
                        Put(map, ip, [count |-> 1, lastSeen |-> env.now])],
                   env)
        ELSE LET c == [count |-> map[ip].count + 1, lastSeen |-> env.now]
                 z == [y EXCEPT !.clients[m.id] = Put(map, ip, c)]
             IN  IF LimitExceeded(c.count, m.limit)
                 THEN HTTPError(z, "Rate limit exceeded", 429)
                 ELSE Serve(next, z, env)

ServeIPFilter(next, x, env) ==
    LET y == Enter(x, "IPFilter")
    IN  IF env.config.impl # "configImpl"
        THEN [y EXCEPT !.panicked = TRUE]
        ELSE IF Len(env.config.IPAllowList) = 0
        THEN Serve(next, y, env)
        ELSE IF ~(\E i \in 1..Len(env.config.IPAllowList) :
                      getClientIP(x.r) = env.config.IPAllowList[i])
        THEN HTTPError(y, "Access denied", 403)
        ELSE Serve(next, y, env)

\* a check that accepts any scheme
BearerFormatAnyScheme(parts) == Len(parts) = 2

\* line 157
BearerFormat(parts) == Len(parts) = 2 /\ Str(parts[1]) = "Bearer"

ServeAuth(next, x, env) ==
    LET y == Enter(x, "Auth")
        authHeader == x.r.Authorization
        parts == Split(authHeader, " ")
    IN  IF Str(authHeader) = ""
        THEN HTTPError(y, "Unauthorized", 401)
        ELSE IF ~BearerFormat(parts)
        THEN HTTPError(y, "Invalid authorization format", 401)
        ELSE IF Str(parts[2]) # env.config.APIKey
        THEN HTTPError(y, "Invalid API key", 401)
        ELSE Serve(next, y, env)

\* a check that accepts timestamps from the future
TimestampExpiredPastOnly(unix, timestampInt) == unix - timestampInt > MaxSkew

\* line 205
TimestampExpired(unix, timestampInt) ==
    unix - timestampInt > MaxSkew \/ timestampInt - unix > MaxSkew

ValidatedMethod(method) == method = "POST" \/ method = "PUT"

ServeValidateSignature(next, x, env) ==
    LET y == Enter(x, "ValidateSignature")
        signature == x.r.XSignature
        timestamp == Str(x.r.XTimestamp)
        parsed == ParseInt(timestamp)
        unix == Unix(env.now)
        signatureData == <<x.r.Path, ":", timestamp, ":", env.config.APIKey>>
    IN  IF ~ValidatedMethod(x.r.Method)
        THEN Serve(next, y, env)
        ELSE IF Str(signature) = ""
        THEN HTTPError(y, "Missing signature", 401)
        ELSE IF timestamp = ""
        THEN HTTPError(y, "Missing timestamp", 401)
        ELSE IF ~parsed.ok
        THEN HTTPError(y, "Invalid timestamp", 401)
        ELSE IF TimestampExpired(unix, parsed.v)
        THEN HTTPError(y, "Timestamp expired", 401)
        ELSE IF ~VerifySignature(signature, signatureData, <<env.config.APIKey>>)
        THEN HTTPError(y, "Invalid signature", 401)
        ELSE Serve(next, y, env)

Serve(h, x, env) ==
    IF h.kind = "handler" THEN ServeHandler(h, x, env)
    ELSE CASE h.m.mw = "RequestID"         -> ServeRequestID(h.next, x, env)
           [] h.m.mw = "Logging"           -> ServeLogging(h.next, x, env)
           [] h.m.mw = "SecurityHeaders"   -> ServeSecurityHeaders(h.next, x, env)
           [] h.m.mw = "RateLimit"         -> ServeRateLimit(h.m, h.next, x, env)
           [] h.m.mw = "IPFilter"          -> ServeIPFilter(h.next, x, env)
           [] h.m.mw = "Auth"              -> ServeAuth(h.next, x, env)
           [] h.m.mw = "ValidateSignature" -> ServeValidateSignature(h.next, x, env)

RateWindow == 60        \* the window RegisterRoutes passes: a time.Duration, so ns

\* Client.RegisterRoutes(router): path -> handler
StandardChain(handler, path, limit) ==
    Chain(HandlerFunc(handler),
          <<RequestIDMiddleware, LoggingMiddleware, SecurityHeadersMiddleware,
            RateLimitMiddleware(path, limit, RateWindow), AuthMiddleware>>)

RoutePaths == {"/payments/init", "/payments/verify", "/payments/status",
               "/payments/refund", "/payments/callback"}

RegisterRoutes ==
    [path \in RoutePaths |->
        CASE path = "/payments/init"     -> StandardChain("handlePaymentInit", path, 10)
          [] path = "/payments/verify"   -> StandardChain("handlePaymentVerify", path, 10)
          [] path = "/payments/status"   -> StandardChain("handlePaymentStatus", path, 20)
          [] path = "/payments/refund"   -> StandardChain("handleRefund", path, 5)
          [] path = "/payments/callback" ->
                Chain(HandlerFunc("handleCallback"),
                      <<RequestIDMiddleware, LoggingMiddleware,
                        SecurityHeadersMiddleware, IPFilterMiddleware>>)]

RouteMethod(path) == IF path = "/payments/status" THEN "GET" ELSE "POST"

\* the rate limiters a handler tree contains, each with an empty client map
RECURSIVE Limiters(_)
Limiters(h) ==
    IF h.kind = "handler" THEN {}
    ELSE (IF h.m.mw = "RateLimit" THEN {h.m.id} ELSE {}) \cup Limiters(h.next)

NewClients(rt) ==
    [id \in UNION {Limiters(rt[p]) : p \in DOMAIN rt} |-> NoClients]

----------------------------------------------------------------------------
(* The state machine: one action per client operation. *)

Call(op, token, amount, reply, fault, res) ==
    [op |-> op, token |-> token, amount |-> amount, reply |-> reply, fault |-> fault,
     payload |-> res.payload, err |-> res.err, calls |-> res.calls,
     storeErr |-> res.storeErr]

NoCall == Call("none", "", 0, NoReply, FALSE, Result(Nil, NoError, NoTransactions, 0, NoError))

RefundInputs == {<<"", 10>>, <<"tx7", -1>>, <<"tx7", 10>>}

\* sync.RWMutex
RWMutex(writer, readers) == [writer |-> writer, readers |-> readers]

ClientIdle ==
    /\ transactions = NoTransactions
    /\ now = 0
    /\ last = NoCall
    /\ goroutines = <<>>
    /\ mutex = RWMutex({}, {})
    /\ verified = {}
    /\ objects = <<>>
    /\ maps = <<>>

\* the client used as a library: no route is registered
Init ==
    /\ ClientIdle
    /\ config = DefaultConfig
    /\ router = [p \in {} |-> Nil]
    /\ clients = NewClients(router)
    /\ clock = 0
    /\ served = <<>>

Return(op, token, amount, reply, fault, res) ==
    /\ transactions' = res.store
    /\ last' = Call(op, token, amount, reply, fault, res)
    /\ now' = now + 1
    /\ UNCHANGED <<config, router, clients, clock, served, goroutines, mutex, verified,
                 objects, maps>>

DoInitiatePayment(faults) ==
    /\ now < MaxTime
    /\ \E amount \in Amounts, reply \in RepliesWith(InitBodies), fault \in faults :
          Return("InitiatePayment", "", amount, reply, fault,
                 InitiatePayment(transactions, now, amount, reply, fault))

DoVerifyPayment(faults) ==
    /\ now < MaxTime
    /\ \E token \in Tokens, reply \in RepliesWith(Bodies), fault \in faults :
          Return("VerifyPayment", token, 0, reply, fault,
                 VerifyPayment(transactions, now, token, reply, fault))

DoGetTransactionInfo ==
    /\ now < MaxTime
    /\ \E token \in {"", "tok1"}, reply \in RepliesWith(Bodies) :
          Return("GetTransactionInfo", token, 0, reply, FALSE,
                 GetTransactionInfo(transactions, token, reply))

DoRefundPayment ==
    /\ now < MaxTime
    /\ \E in \in RefundInputs, reply \in RepliesWith(Bodies) :
          Return("RefundPayment", in[1], in[2], reply, FALSE,
                 RefundPayment(transactions, in[1], in[2], reply))

\* POST /payments/init, past its middleware chain, with a JSON body
InitRequests ==
    [Amount : Amounts, CallbackURL : {"", CallbackURL},
     Description : {<<>>}, Mobile : {<<>>}, ValidCardNumber : {<<>>}]

DoHandlePaymentInit(faults) ==
    /\ now < MaxTime
    /\ \E req \in InitRequests :
          IF ValidatePaymentInitRequest(req) # <<>>
          THEN Return("handlePaymentInit", "", req.Amount, NoReply, FALSE,
                      handlePaymentInit(transactions, now, req, NoReply, FALSE))
          ELSE \E reply \in RepliesWith(InitBodies), fault \in faults :
                  Return("handlePaymentInit", "", req.Amount, reply, fault,
                         handlePaymentInit(transactions, now, req, reply, fault))

\* The repository as shipped: the client on a MemoryStorage.
Next ==
    \/ DoInitiatePayment({FALSE})
    \/ DoHandlePaymentInit({FALSE})
    \/ DoVerifyPayment({FALSE})
    \/ DoGetTransactionInfo
    \/ DoRefundPayment

Spec == Init /\ [][Next]_vars

\* The client on a storage backend whose calls may fail.
NextFaultyStore ==
    \/ DoInitiatePayment(BOOLEAN)
    \/ DoVerifyPayment(BOOLEAN)

SpecFaultyStore == Init /\ [][NextFaultyStore]_vars

----------------------------------------------------------------------------
(* The HTTP side: one action, serving one request through the handler the  *)
(* router holds for its path.  The specifications differ in the router     *)
(* they start with and in the requests they are sent.                      *)

MaxRequests == 3        \* requests served in one behaviour
MaxLimit == 2           \* largest limit of the rate limiter under test
MaxWindow == 2          \* largest window of the rate limiter under test, in ns
MaxBurst == 6           \* requests one client sends to the registered routes
MaxProbes == 2          \* requests sent to a single middleware under test

Serving(cfg, rt) ==
    /\ ClientIdle
    /\ config = cfg
    /\ router = rt
    /\ clients = NewClients(rt)
    /\ clock = 0
    /\ served = <<>>

ServeHTTP(requests, deltas, statuses, max) ==
    /\ Len(served) < max
    /\ \E r \in requests, d \in deltas, hs \in statuses :
          /\ r.Path \in DOMAIN router
          /\ LET t == clock + d
                 x == Serve(router[r.Path], Exchange(r, clients),
                            [config |-> config, now |-> t, handlerStatus |-> hs])
             IN  /\ clock' = t
                 /\ clients' = x.clients
                 /\ served' = Append(served, [x EXCEPT !.at = t])
    /\ UNCHANGED <<config, router, transactions, now, last, goroutines, mutex, verified,
                 objects, maps>>

IPs == {"10.0.0.1", "10.0.0.2"}

\* a request without optional headers
Plain(method, path, ip) ==
    Request(method, path, <<ip, ":", "4711">>, <<>>, <<>>, <<>>, <<>>, <<>>, <<>>)

\* A rate limiter of limit N and window W around a handler.
\* a router with one route: a handler behind one middleware
Harness(path, mw) == [p \in {path} |-> Chain(HandlerFunc("handler"), <<mw>>)]

InitRateLimit ==
    \E limit \in 1..MaxLimit, window \in 1..MaxWindow :
        Serving(DefaultConfig,
                Harness("/limited", RateLimitMiddleware("/limited", limit, window)))

NextRateLimit ==
    ServeHTTP({Plain("GET", "/limited", ip) : ip \in IPs}, 0..(MaxWindow + 1),
              {200}, MaxRequests)

SpecRateLimit == InitRateLimit /\ [][NextRateLimit]_vars

\* One of AuthMiddleware, IPFilterMiddleware and ValidateSignatureMiddleware
\* around a handler, and requests that try its checks.
Bearer(key) == <<"Bearer", " ", key>>

AuthRequests ==
    {Request("POST", "/protected", <<"10.0.0.1", ":", "4711">>, <<>>, <<>>, auth,
             <<>>, <<>>, <<>>) :
        auth \in {<<>>, <<"Bearer">>, <<"Bearer", " ">>, <<APIKey>>,
                  Bearer(APIKey), Bearer("wrong"), <<"Basic", " ", APIKey>>,
                  <<"bearer", " ", APIKey>>, <<"Bearer", " ", " ", APIKey>>,
                  <<" ", "Bearer", " ", APIKey>>, <<"Bearer", " ", APIKey, " ", "x">>}}

FilterRequests ==
    {Request("POST", "/filtered", <<ip, ":", "4711">>, xff, real, <<>>, <<>>, <<>>, <<>>) :
        ip \in IPs,
        xff \in {<<>>, <<"10.0.0.1">>, <<" ", "10.0.0.3", " ", ",", " ", "10.0.0.1">>},
        real \in {<<>>, <<"10.0.0.2">>}}

Signed(path, timestamp, key) ==
    SignData(<<path, ":", Str(timestamp), ":", APIKey>>, <<key>>)

Timestamps ==
    {<<>>, <<"soon">>} \cup
    {<<FormatInt(n)>> : n \in {0 - MaxSkew - 1, 0 - MaxSkew, MaxSkew, MaxSkew + 1}}

SignaturesFor(ts) ==
    {<<>>, Signed("/signed", ts, APIKey), Signed("/signed", ts, "wrong"),
     Signed("/other", ts, APIKey), Signed("/signed", <<"0">>, APIKey)}

SignedRequests ==
    UNION {{Request("POST", "/signed", <<"10.0.0.1", ":", "4711">>, <<>>, <<>>, <<>>,
                    <<>>, sig, ts) : sig \in SignaturesFor(ts)} : ts \in Timestamps}
    \cup
    {Request(method, "/signed", <<"10.0.0.1", ":", "4711">>, <<>>, <<>>, <<>>, <<>>,
             sig, <<"0">>) :
        method \in {"PUT", "GET", "DELETE"},
        sig \in {<<>>, Signed("/signed", <<"0">>, APIKey)}}

AllowLists == {<<>>, <<"10.0.0.1", "10.0.0.3">>}

InitMiddleware ==
    \/ Serving(DefaultConfig, Harness("/protected", AuthMiddleware))
    \/ Serving(DefaultConfig, Harness("/signed", ValidateSignatureMiddleware))
    \/ \E impl \in {"configImpl", "ConfigWrapper"}, list \in AllowLists :
          Serving(Config(impl, list), Harness("/filtered", IPFilterMiddleware))

NextMiddleware ==
    ServeHTTP(AuthRequests \cup FilterRequests \cup SignedRequests, {1}, {200},
              MaxProbes)

SpecMiddleware == InitMiddleware /\ [][NextMiddleware]_vars

\* The registered routes, built with either ConfigInterface implementation,
\* and requests with and without credentials and request IDs; a client may
\* also repeat one refund request.
RouteRequests ==
    {Request(RouteMethod(path), path, <<"10.0.0.1", ":", "4711">>, <<>>, <<>>,
             auth, id, <<>>, <<>>) :
        path \in RoutePaths \ {"/payments/callback"},
        auth \in {<<>>, Bearer(APIKey)}, id \in {<<>>, <<"req-7">>}}
    \cup
    {Request("POST", "/payments/callback", <<ip, ":", "4711">>, <<>>, <<>>, <<>>,
             id, <<>>, <<>>) :
        ip \in IPs, id \in {<<>>, <<"req-7">>}}

RepeatedRefund ==
    {Request("POST", "/payments/refund", <<"10.0.0.1", ":", "4711">>, <<>>, <<>>,
             Bearer(APIKey), <<"req-7">>, <<>>, <<>>)}

InitRoutes ==
    \E impl \in {"configImpl", "ConfigWrapper"}, list \in AllowLists :
        Serving(Config(impl, list), RegisterRoutes)

NextRoutes ==
    \/ ServeHTTP(RouteRequests, {1}, {200, 400}, MaxProbes)
    \/ ServeHTTP(RepeatedRefund, {1}, {200}, MaxBurst)

SpecRoutes == InitRoutes /\ [][NextRoutes]_vars

\* The registered routes, and one client that sends well-formed requests
\* to the rate-limited ones, 1 ns or a little more than 60 ns apart.
BurstRequests ==
    {Request(RouteMethod(path), path, <<"10.0.0.1", ":", "4711">>, <<>>, <<>>,
             Bearer(APIKey), <<>>, <<>>, <<>>) :
        path \in RoutePaths \ {"/payments/callback"}}

InitBurst == Serving(DefaultConfig, RegisterRoutes)

NextBurst == ServeHTTP(BurstRequests, {1, RateWindow + 1}, {200}, MaxBurst)

SpecBurst == InitBurst /\ [][NextBurst]_vars

----------------------------------------------------------------------------
(* Properties *)

ClientOps == {"InitiatePayment", "VerifyPayment", "GetTransactionInfo", "RefundPayment"}

Is2xx(reply) == reply.transport = "ok" /\ reply.code >= 200 /\ reply.code <= 299
Non2xx(reply) == reply.transport = "ok" /\ (reply.code < 200 \/ reply.code > 299)

\* the gateway answered 2xx with status 1
GatewaySuccess(reply) ==
    Is2xx(reply) /\ reply.body.kind = "object" /\ reply.body.status = JNum(1)

\* C1: an initiation with an amount below MinAmount or above MaxAmount, through
\* Client.InitiatePayment or the /payments/init handler, fails with a validation
\* error on the field amount and makes no HTTP call to the gateway.
C1_OutOfRangeAmountNeverReachesGateway ==
    (/\ last.op \in {"InitiatePayment", "handlePaymentInit"}
     /\ (last.amount < MinAmount \/ last.amount > MaxAmount))
    => (/\ last.err.kind = "validation"
        /\ "amount" \in last.err.fields
        /\ last.calls = 0)

\* C2: VerifyPayment and GetTransactionInfo with an empty token, and RefundPayment
\* with an empty transaction ID or a negative amount, return an error and make no
\* HTTP call to the gateway.
C2_InvalidInputNeverReachesGateway ==
    (\/ (last.op \in {"VerifyPayment", "GetTransactionInfo"} /\ last.token = "")
     \/ (last.op = "RefundPayment" /\ (last.token = "" \/ last.amount < 0)))
    => (last.err # NoError /\ last.calls = 0)

\* C3: after InitiatePayment has returned without error, GetTransaction of the
\* returned token succeeds and yields a record with status INIT, that token and
\* the requested amount.
C3_InitiatedTransactionRetrievable ==
    (last.op = "InitiatePayment" /\ last.err = NoError)
    => LET g == GetTransaction(transactions, last.payload.Token)
       IN  /\ g.err = NoError
           /\ g.tx.Status = "INIT"
           /\ g.tx.Token = last.payload.Token
           /\ g.tx.Amount = last.amount

\* C4: a VerifyPayment that succeeds for a token whose record is stored with status
\* INIT (or, when repeated, PAID) leaves that record with status PAID, CompletedAt
\* set and the gateway's transaction id, card number and CID.
C4_VerifiedRecordBecomesPaid ==
    [][(/\ last'.op = "VerifyPayment"
        /\ last'.err = NoError
        /\ last'.token \in DOMAIN transactions
        /\ transactions[last'.token].Status \in {"INIT", "PAID"})
       => (/\ last'.token \in DOMAIN transactions'
           /\ LET tx == transactions'[last'.token]
              IN  /\ tx.Status = "PAID"
                  /\ tx.CompletedAt # Nil
                  /\ tx.TransactionID = last'.payload.TransID
                  /\ tx.CardNumber = last'.payload.CardNumber
                  /\ tx.CID = last'.payload.CID)]_vars

\* C5: VerifyPayment(token), whatever its outcome, leaves every stored record whose
\* token differs from the given token as it was.
C5_VerifyLeavesOtherRecords ==
    [][last'.op = "VerifyPayment"
       => \A k \in DOMAIN transactions :
             k # last'.token
             => (k \in DOMAIN transactions' /\ transactions'[k] = transactions[k])]_vars

\* C5 happens: a verification has updated one record while the store held another.
C5_Witness ==
    /\ last.op = "VerifyPayment"
    /\ last.token \in DOMAIN transactions
    /\ transactions[last.token].Status = "PAID"
    /\ transactions[last.token].UpdatedAt = now - 1
    /\ \E k \in DOMAIN transactions : k # last.token

\* the fields of a verification body as PaymentVerifyResponse holds them
VerifyResultOf(body) ==
    [Status |-> body.status.n, TransID |-> body.transId.n,
     CardNumber |-> body.cardNumber.s, CID |-> body.cid.s, Message |-> body.message.s]

\* C6: when the gateway verifies a token and the store holds no record for it,
\* VerifyPayment returns the gateway's result as decoded with a nil error and
\* leaves the store as it was.
C6_VerifyWithoutRecord ==
    [][(/\ last'.op = "VerifyPayment"
        /\ GatewaySuccess(last'.reply)
        /\ last'.token \notin DOMAIN transactions)
       => (/\ last'.err = NoError
           /\ last'.payload = VerifyResultOf(last'.reply.body)
           /\ transactions' = transactions)]_vars

\* C6 happens: a token without a record has been verified by the gateway.
C6_Witness ==
    /\ last.op = "VerifyPayment"
    /\ GatewaySuccess(last.reply)
    /\ last.token # ""
    /\ last.token \notin DOMAIN transactions
    /\ last.err = NoError

\* the status flag of a decoded 2xx body says failure
StatusFlagFailure(op, body) ==
    /\ body.kind = "object"
    /\ IF op = "RefundPayment"
       THEN body.status \in {JAbsent, JBool(FALSE)}
       ELSE body.status \in {JAbsent, JNum(0)}
    /\ (op = "GetTransactionInfo" => body.code.t # "str")

\* C7: each of the four client operations, on a 2xx answer whose status flag says
\* failure, returns the decoded payload together with a non-nil error.
C7_FailureFlagGivesPayloadAndError ==
    (/\ last.op \in ClientOps
     /\ last.calls = 1
     /\ Is2xx(last.reply)
     /\ StatusFlagFailure(last.op, last.reply.body))
    => (last.payload # Nil /\ last.err # NoError)

\* the decimal form of the HTTP status codes that are not 2xx
DecimalStatus(code) == CASE code = 300 -> "300" [] code = 404 -> "404"

\* the APIError a body that is not 2xx gives: the parsed payload when message and
\* code are strings or absent, else the raw body and the decimal status
ExpectedAPIError(reply) ==
    IF /\ reply.body.kind = "object"
       /\ reply.body.message.t \in {"str", "absent"}
       /\ reply.body.code.t \in {"str", "absent"}
    THEN [Message |-> IF reply.body.message.t = "str" THEN reply.body.message.s ELSE "",
          Code |-> IF reply.body.code.t = "str" THEN reply.body.code.s ELSE ""]
    ELSE [Message |-> reply.body.raw, Code |-> DecimalStatus(reply.code)]

\* C8: on an HTTP status that is not 2xx every client operation returns a nil
\* payload and an error wrapping an APIError - the parsed error payload, else the
\* raw body with the decimal status as code - and writes nothing to the store.
C8_Non2xxGivesAPIError ==
    [][(/\ last'.op \in ClientOps
        /\ Non2xx(last'.reply)
        /\ ~(last'.op = "GetTransactionInfo" /\ last'.token = ""))
       => (/\ last'.payload = Nil
           /\ last'.err.kind = "api"
           /\ last'.err.api = ExpectedAPIError(last'.reply)
           /\ transactions' = transactions)]_vars

\* C8 happens: an undecodable 404 body on a store that holds a record.
C8_Witness ==
    /\ last.op \in ClientOps
    /\ last.reply = Reply("ok", 404, BodyText)
    /\ last.err.kind = "api"
    /\ last.err.api.Code = "404"
    /\ DOMAIN transactions # {}

\* the fields of an initiation body as PaymentInitResponse holds them
InitResultOf(body) ==
    [Status |-> body.status.n, Token |-> body.token.s, Message |-> body.message.s]

\* C9: when the gateway reports success and the storage call then fails,
\* InitiatePayment and VerifyPayment still return the gateway's response with a
\* nil error.
C9_StorageFailureSwallowed ==
    (/\ last.op \in {"InitiatePayment", "VerifyPayment"}
     /\ GatewaySuccess(last.reply)
     /\ last.storeErr # NoError)
    => (/\ last.err = NoError
        /\ last.payload = IF last.op = "InitiatePayment"
                          THEN InitResultOf(last.reply.body)
                          ELSE VerifyResultOf(last.reply.body))

\* C9 happens: the storage call of a successful initiation has failed.
C9_Witness ==
    /\ last.op = "InitiatePayment"
    /\ GatewaySuccess(last.reply)
    /\ last.storeErr # NoError
    /\ last.err = NoError

----------------------------------------------------------------------------
(* Properties of the middlewares *)

MiddlewareNames == {"RequestID", "Logging", "SecurityHeaders", "RateLimit",
                    "IPFilter", "Auth", "ValidateSignature"}

\* the innermost handler was invoked in exchange e
HandlerRan(e) == \E i \in 1..Len(e.trace) : e.trace[i].name \notin MiddlewareNames

\* step `name` was entered in exchange e
Ran(e, name) == \E i \in 1..Len(e.trace) : e.trace[i].name = name

Rejected(e, code) == e.w.status = code /\ ~HandlerRan(e)

Max(S) == CHOOSE m \in S : \A k \in S : k <= m

\* the exchanges of one client IP on one path, as indices into served
IndicesOf(path, ip) ==
    {i \in 1..Len(served) : served[i].r.Path = path /\ getClientIP(served[i].r) = ip}

Before(path, ip, i) == {j \in IndicesOf(path, ip) : j < i}

\* request i and the n - 1 requests the same IP sent next
Run(path, ip, i, n) ==
    {j \in IndicesOf(path, ip) :
        j >= i /\ Cardinality({k \in IndicesOf(path, ip) : i <= k /\ k < j}) < n}

\* request i finds no count to continue: the IP's first request, or one
\* that comes more than the window after the IP's previous request
Fresh(path, ip, i, window) ==
    \A j \in Before(path, ip, i) : served[i].at - served[j].at > window

Limiter == router["/limited"].m

CountAfter(path, ip, i) == served[i].clients[path][ip].count

C12_IdleClientAdmittedAgain ==
    \A ip \in IPs : \A i \in IndicesOf("/limited", ip) :
        (/\ Before("/limited", ip, i) # {}
         /\ served[i].at - served[Max(Before("/limited", ip, i))].at > Limiter.window)
        => /\ HandlerRan(served[i])
           /\ CountAfter("/limited", ip, i) = 1

C12_Witness ==
    \E ip \in IPs : \E i \in IndicesOf("/limited", ip) :
        /\ Before("/limited", ip, i) # {}
        /\ Rejected(served[Max(Before("/limited", ip, i))], 429)
        /\ served[i].at - served[Max(Before("/limited", ip, i))].at > Limiter.window
        /\ HandlerRan(served[i])

\* the requests before i at which the IP's counter was reset to 1
ResetsBefore(path, ip, i) ==
    {j \in Before(path, ip, i) : CountAfter(path, ip, j) = 1}

\* C13: a request that comes more than the window after the IP's counter
\* was last reset is admitted and resets the counter, whatever the IP sent
\* in between.
C13_WindowCountedFromReset ==
    \A ip \in IPs : \A i \in IndicesOf("/limited", ip) :
        (/\ Before("/limited", ip, i) # {}
         /\ served[i].at - served[Max(ResetsBefore("/limited", ip, i))].at
                > Limiter.window)
        => /\ HandlerRan(served[i])
           /\ CountAfter("/limited", ip, i) = 1

\* the number of the request each route is said to reject within a minute
RejectedRequest(path) ==
    CASE path = "/payments/init" -> 11
      [] path = "/payments/verify" -> 11
      [] path = "/payments/status" -> 21
      [] path = "/payments/refund" -> 6

\* C14: when one client IP sends requests to a rate-limited route and the
\* 11th on /payments/init, the 11th on /payments/verify, the 21st on
\* /payments/status or the 6th on /payments/refund comes within 60 seconds
\* of the first (here: within one second), that request is rejected with
\* 429.
C14_RegisteredLimitsPerMinute ==
    \A path \in RoutePaths \ {"/payments/callback"} : \A ip \in IPs :
        \A i \in IndicesOf(path, ip) :
            LET run == Run(path, ip, i, RejectedRequest(path))
            IN  (/\ Before(path, ip, i) = {}
                 /\ Cardinality(run) = RejectedRequest(path)
                 /\ served[Max(run)].at - served[i].at <= Second)
                => Rejected(served[Max(run)], 429)

\* C15: AuthMiddleware invokes the handler exactly when the Authorization
\* header is Bearer, one blank and the configured API key; every other
\* request, a missing header, a malformed one or a wrong credential, is
\* answered 401 and the handler does not run.
C15_AuthAdmitsExactlyTheBearerKey ==
    \A i \in 1..Len(served) :
        Ran(served[i], "Auth")
        => /\ HandlerRan(served[i])
                <=> Str(served[i].r.Authorization) = "Bearer " \o config.APIKey
           /\ ~HandlerRan(served[i]) => Rejected(served[i], 401)

C15_Witness ==
    \E i, j \in 1..Len(served) :
        /\ Ran(served[i], "Auth") /\ HandlerRan(served[i])
        /\ Ran(served[j], "Auth") /\ Rejected(served[j], 401)
        /\ served[j].r.Authorization = <<"Basic", " ", config.APIKey>>

\* C16: the answers AuthMiddleware gives to rejected requests do not
\* differ: any two of them have the same status code and the same body.
C16_AuthRejectionsAlike ==
    \A i, j \in 1..Len(served) :
        (/\ Ran(served[i], "Auth") /\ ~HandlerRan(served[i])
         /\ Ran(served[j], "Auth") /\ ~HandlerRan(served[j]))
        => /\ served[i].w.status = served[j].w.status
           /\ served[i].w.body = served[j].w.body

\* C17: IPFilterMiddleware hands the request to the handler when the
\* allow-list is empty or holds the resolved client IP, and otherwise
\* answers 403 without the handler.
C17_IPFilterFollowsAllowList ==
    \A i \in 1..Len(served) :
        Ran(served[i], "IPFilter")
        => IF VerifyCallbackIP(getClientIP(served[i].r), config.IPAllowList)
           THEN HandlerRan(served[i])
           ELSE Rejected(served[i], 403)

\* C17 for a configuration built by NewConfig
C17_OnConfigImpl == config.impl = "configImpl" => C17_IPFilterFollowsAllowList

\* the request of exchange e carries a signature of path:timestamp:key
\* under the key and a timestamp at most 300 seconds from the clock
ValidSigned(e) ==
    LET timestamp == Str(e.r.XTimestamp)
        t == ParseInt(timestamp)
        d == Unix(e.at) - t.v
    IN  /\ e.r.XSignature
              = SignData(<<e.r.Path, ":", timestamp, ":", config.APIKey>>,
                         <<config.APIKey>>)
        /\ t.ok
        /\ d <= 300 /\ 0 - d <= 300

\* C20 as stated: ValidateSignatureMiddleware invokes the handler only for a
\* request with a valid signature and a timestamp within 300 seconds;
\* every other request, whatever its method, is answered 401 without the
\* handler.
C20_EveryMethodNeedsSignature ==
    \A i \in 1..Len(served) :
        Ran(served[i], "ValidateSignature")
        => IF ValidSigned(served[i])
           THEN HandlerRan(served[i])
           ELSE Rejected(served[i], 401)

\* C20, amended: a POST or PUT request reaches the handler exactly when it
\* has a valid signature and a timestamp within 300 seconds, and is
\* answered 401 without the handler otherwise; a request with any other
\* method reaches the handler unchecked.
C20_PostAndPutNeedSignature ==
    \A i \in 1..Len(served) :
        Ran(served[i], "ValidateSignature")
        => IF served[i].r.Method \in {"POST", "PUT"} /\ ~ValidSigned(served[i])
           THEN Rejected(served[i], 401)
           ELSE HandlerRan(served[i])

C20_Witness ==
    \E i, j \in 1..Len(served) :
        /\ Ran(served[i], "ValidateSignature")
        /\ served[i].r.Method = "POST" /\ ValidSigned(served[i])
        /\ served[i].r.XTimestamp = <<"300">> /\ HandlerRan(served[i])
        /\ Ran(served[j], "ValidateSignature")
        /\ served[j].r.Method = "POST" /\ served[j].r.XTimestamp = <<"301">>
        /\ served[j].r.XSignature = Signed("/signed", <<"301">>, config.APIKey)
        /\ Rejected(served[j], 401)

\* the middlewares of a route in the order RegisterRoutes declares them
Declared(path) ==
    IF path = "/payments/callback"
    THEN <<"RequestID", "Logging", "SecurityHeaders", "IPFilter">>
    ELSE <<"RequestID", "Logging", "SecurityHeaders", "RateLimit", "Auth">>

\* C18: the middlewares of a route run in declared order, first to last,
\* each only if the ones before it delegated, and the handler runs last
\* and only after all of them; on the rate-limited routes the handler
\* therefore runs only after the rate limiter and then authentication
\* let the request through.
C18_ChainRunsInDeclaredOrder ==
    \A i \in 1..Len(served) :
        LET trace == served[i].trace
            order == Declared(served[i].r.Path)
        IN  /\ Len(trace) >= 1
            /\ Len(trace) <= Len(order) + 1
            /\ \A k \in 1..Len(trace) :
                  IF k <= Len(order)
                  THEN trace[k].name = order[k]
                  ELSE trace[k].name \notin MiddlewareNames
            /\ HandlerRan(served[i]) <=> Len(trace) = Len(order) + 1

C18_Witness ==
    \E i, j \in 1..Len(served) :
        /\ served[i].r.Path = "/payments/refund" /\ HandlerRan(served[i])
        /\ Len(served[i].trace) = 6
        /\ served[i].trace[4].name = "RateLimit" /\ served[i].trace[5].name = "Auth"
        /\ served[j].r.Path = "/payments/refund" /\ Rejected(served[j], 401)
        /\ Len(served[j].trace) = 5

\* C19: every response of a registered endpoint carries an X-Request-ID
\* header, equal to the inbound X-Request-ID if the request had one and
\* generated otherwise, and every middleware after the first and the
\* handler see the same value as request_id in the context.
C19_RequestIDOnEveryResponse ==
    \A i \in 1..Len(served) :
        ~served[i].panicked
        => LET id == served[i].w.header.XRequestID
               inbound == Str(served[i].r.XRequestID)
           IN  /\ served[i].w.status # 0
               /\ id # ""
               /\ id = IF inbound # "" THEN inbound ELSE SprintfD(served[i].at)
               /\ \A k \in 2..Len(served[i].trace) :
                     served[i].trace[k].request_id = id

C19_Witness ==
    \E i, j \in 1..Len(served) :
        /\ Rejected(served[i], 429)
        /\ served[i].w.header.XRequestID = "req-7"
        /\ HandlerRan(served[j])
        /\ served[j].trace[6].request_id = "req-7"

----------------------------------------------------------------------------
(* The validators, MaskCardNumber and VerifySignature applied to inputs;   *)
(* `last` holds the latest application.                                    *)

MaxCardLen == 5         \* longest card number text built from CardChars

Applied(fn, args, value) == [op |-> fn, args |-> args, value |-> value]

\* one application in a behaviour
Apply(fn, args, value) ==
    /\ last = NoCall
    /\ last' = Applied(fn, args, value)
    /\ UNCHANGED <<transactions, now, config, router, clients, clock, served>>
    /\ UNCHANGED <<goroutines, mutex, verified, objects, maps>>

Mobile == <<"0", "9", "1", "2", "3", "4", "5", "6", "7", "8", "9">>
Card16 == <<"6", "0", "3", "7">> \o Chars(8, "9") \o <<"1", "2", "3", "4">>

ValidatorInitRequests ==
    [Amount : Amounts,
     CallbackURL : {"", CallbackURL, "ftp://shop.example/cb"},
     Description : {Chars(n, "d") : n \in {0, MaxDescriptionLength, MaxDescriptionLength + 1}},
     Mobile : {<<>>, Mobile, Tail(Mobile), <<"0", "8">> \o SubSeq(Mobile, 3, 11),
               Mobile \o <<"0">>, SubSeq(Mobile, 1, 10) \o <<"x">>},
     ValidCardNumber : {<<>>, Card16, SubSeq(Card16, 1, 4) \o <<"-">> \o SubSeq(Card16, 5, 16),
                        Tail(Card16), Card16 \o <<"0">>, <<"x">>}]

ApplyValidatePaymentInitRequest ==
    \E req \in ValidatorInitRequests :
        Apply("ValidatePaymentInitRequest", req, ValidatePaymentInitRequest(req))

ApplyValidateRefundRequest ==
    \E req \in [TransactionID : {"", "tx7"}, Amount : {-1, 0, 10}] :
        Apply("ValidateRefundRequest", req, ValidateRefundRequest(req))

CardChars == {"1", "7", "-"}
CardNumbers ==
    UNION {[1..n -> CardChars] : n \in 0..MaxCardLen}
    \cup {Card16, SubSeq(Card16, 1, 4) \o <<" ">> \o SubSeq(Card16, 5, 16)}

ApplyMaskCardNumber ==
    \E cardNumber \in CardNumbers :
        Apply("MaskCardNumber", cardNumber, MaskCardNumber(cardNumber))

\* the texts that differ from a text by one character: one character
\* replaced by another, one inserted, or one removed
Substitutions(text, alphabet) ==
    {[text EXCEPT ![p[1]] = p[2]] :
        p \in {q \in (DOMAIN text) \X alphabet : text[q[1]] # q[2]}}
Insertions(text, alphabet) ==
    {SubSeq(text, 1, i) \o <<c>> \o SubSeq(text, i + 1, Len(text)) :
        i \in 0..Len(text), c \in alphabet}
Deletions(text) ==
    {SubSeq(text, 1, i - 1) \o SubSeq(text, i + 1, Len(text)) : i \in DOMAIN text}

SignChars == {"a", "k", NUL}
SignTexts == UNION {[1..n -> SignChars] : n \in 0..2}

\* VerifySignature on a signature, a data and a key of which at most one
\* differs, by one character, from SignData(d, k), d and k
SignInputs(d, k) ==
    LET s == SignData(d, k)
        I(sig, data, key, what, how) ==
            [signature |-> sig, data |-> data, key |-> key, d |-> d, k |-> k,
             differs |-> what, by |-> how]
    IN  {I(s, d, k, "nothing", "nothing")}
        \cup {I(x, d, k, "signature", "substitution") : x \in Substitutions(s, SignChars)}
        \cup {I(x, d, k, "signature", "insertion") : x \in Insertions(s, SignChars)}
        \cup {I(x, d, k, "signature", "deletion") : x \in Deletions(s)}
        \cup {I(s, x, k, "data", "substitution") : x \in Substitutions(d, SignChars)}
        \cup {I(s, x, k, "data", "insertion") : x \in Insertions(d, SignChars)}
        \cup {I(s, x, k, "data", "deletion") : x \in Deletions(d)}
        \cup {I(s, d, x, "key", "substitution") : x \in Substitutions(k, SignChars)}
        \cup {I(s, d, x, "key", "insertion") : x \in Insertions(k, SignChars)}
        \cup {I(s, d, x, "key", "deletion") : x \in Deletions(k)}

ApplyVerifySignature ==
    \E d \in SignTexts, k \in SignTexts :
        \E in \in SignInputs(d, k) :
            Apply("VerifySignature", in, VerifySignature(in.signature, in.data, in.key))

\* defaultLogger (logging.go).  A field value of a log call, by its Go type:
\* a string, a map[string]interface{}, or a value of another type that
\* json.Marshal writes by its keys (a struct by its json tags, a
\* map[string]string).
NoFields == [k \in {} |-> Nil]
LogString(text) == [kind |-> "string", text |-> text, fields |-> NoFields]
LogMap(fields) == [kind |-> "map[string]interface{}", text |-> <<>>, fields |-> fields]
LogStruct(fields) == [kind |-> "struct", text |-> <<>>, fields |-> fields]

sensitiveKeys ==
    {"card_number", "cardNumber", "card", "password", "secret", "token", "api_key",
     "authorization", "auth", "api_secret", "credit_card", "cvv", "cvc", "pin"}

RECURSIVE sanitizeSensitiveData(_)
sanitizeSensitiveData(fields) ==
    [k \in DOMAIN fields |->
        IF k \in sensitiveKeys
        THEN IF fields[k].kind = "string" /\ Len(fields[k].text) > 4
             THEN LogString(MaskCardNumber(fields[k].text))
             ELSE LogString(Chars(4, "*"))
        ELSE IF fields[k].kind = "map[string]interface{}"
             THEN LogMap(sanitizeSensitiveData(fields[k].fields))
             ELSE fields[k]]

\* formatLog: the fields of the entry that json.Marshal writes out
formatLog(fields) == sanitizeSensitiveData(fields)

\* the strings of a marshalled value, each with the keys that lead to it
RECURSIVE Leaves(_, _)
Leaves(path, fields) ==
    UNION {IF fields[k].kind = "string"
           THEN {<<Append(path, k), fields[k].text>>}
           ELSE Leaves(Append(path, k), fields[k].fields) : k \in DOMAIN fields}

LogToken == <<"t", "o", "k", "1", "2", "3", "4", "5">>
LogSecrets == {LogToken, Card16, <<"1", "2", "3">>, <<"s", "e", "c", "r", "e", "t">>}

\* the credentials of a transaction or request, by json tag, with a field
\* that is no credential
Credentials ==
    {("token" :> LogString(s)) @@ ("status" :> LogString(<<"I", "N", "I", "T">>)) : s \in LogSecrets}
    \cup {("card_number" :> LogString(s)) : s \in LogSecrets}
    \cup {("pin" :> LogString(s)) : s \in LogSecrets}

LogFields ==
    Credentials
    \cup {("request" :> LogMap(c)) : c \in Credentials}
    \cup {("request" :> LogMap(("body" :> LogMap(c)))) : c \in Credentials}
    \cup {("transaction" :> LogStruct(c)) : c \in Credentials}

ApplyFormatLog ==
    \E fields \in LogFields :
        Apply("formatLog", fields, formatLog(fields))

\* InitiatePayment's request body (client.go): the three fields the client
\* sets, the description when there is one, then every entry of metadata
apiReq(cfg, amount, description, metadata) ==
    [k \in DOMAIN metadata |-> JStr(metadata[k])]
    @@ (IF description # "" THEN ("description" :> JStr(description)) ELSE NoFields)
    @@ [api_key |-> JStr(cfg.APIKey), amount |-> JNum(amount),
        callback_url |-> JStr(CallbackURL)]

MetadataMaps ==
    {NoFields, ("order" :> "a"), ("amount" :> "1"), ("api_key" :> "k"),
     ("callback_url" :> "http://other.example/cb"),
     ("order" :> "a") @@ ("amount" :> "1")}

\* InitiatePayment answered by the gateway with a token: what was sent and
\* what was stored
ApplyInitiatePayment ==
    \E amount \in Amounts, description \in {"", "shoes"}, metadata \in MetadataMaps :
        Apply("InitiatePayment",
              [amount |-> amount, description |-> description, metadata |-> metadata],
              [sent |-> apiReq(DefaultConfig, amount, description, metadata),
               result |-> InitiatePayment(NoTransactions, now, amount,
                                          Reply("ok", 200, BodyOK("tok1")), FALSE)])

NextFunctions ==
    \/ ApplyValidatePaymentInitRequest
    \/ ApplyValidateRefundRequest
    \/ ApplyMaskCardNumber
    \/ ApplyVerifySignature
    \/ ApplyFormatLog
    \/ ApplyInitiatePayment

SpecFunctions == Init /\ [][NextFunctions]_vars

----------------------------------------------------------------------------
(* Client operations and callbacks running in several goroutines on one    *)
(* MemoryStorage.  A storage call is one step (it runs under the mutex);   *)
(* what a goroutine does between two storage calls is local to it.  Every  *)
(* step takes one tick of the clock.                                       *)

MaxSteps == 8           \* steps of all goroutines together

Idle == [pc |-> "idle", tx |-> Nil]

Go(g, pc, tx) ==
    /\ goroutines' = [goroutines EXCEPT ![g] = [pc |-> pc, tx |-> tx]]
    /\ now' = now + 1
    /\ UNCHANGED <<last, config, router, clients, clock, served, mutex,
                 objects, maps>>

GoReplies == {Reply("ok", 200, BodyOK("tok1")), Reply("ok", 200, BodyDeclined), DialError}

\* InitiatePayment up to the record it builds: client.go, before StoreTransaction
GoInitiatePayment(g) ==
    /\ now < MaxSteps
    /\ goroutines[g].pc = "idle"
    /\ \E reply \in GoReplies :
          LET r == makeRequest(reply)
              d == UnmarshalPaymentInitResponse(r.respBody)
          IN  IF r.err = NoError /\ d.ok /\ d.v.Status = 1
              THEN Go(g, "store",
                      Transaction(generateRequestID(now), d.v.Token, MinAmount, "INIT", now))
              ELSE Go(g, "idle", Nil)
    /\ UNCHANGED <<transactions, verified>>

\* c.storage.StoreTransaction(ctx, transaction)
GoStoreTransaction(g) ==
    /\ now < MaxSteps
    /\ goroutines[g].pc = "store"
    /\ transactions' = StoreTransaction(transactions, goroutines[g].tx).store
    /\ Go(g, "idle", Nil)
    /\ UNCHANGED verified

\* VerifyPayment up to the record it changes: the gateway call,
\* GetTransaction and the assignments to its copy
GoVerifyPayment(g) ==
    /\ now < MaxSteps
    /\ goroutines[g].pc = "idle"
    /\ \E token \in {"tok1"}, reply \in GoReplies :
          LET r == makeRequest(reply)
              d == UnmarshalPaymentVerifyResponse(r.respBody)
              got == GetTransaction(transactions, token)
          IN  /\ verified' = IF Is2xx(reply) /\ reply.body.status = JNum(1)
                             THEN verified \cup {token} ELSE verified
              /\ IF r.err = NoError /\ d.ok /\ d.v.Status = 1 /\ got.err = NoError
                 THEN Go(g, "update",
                         [got.tx EXCEPT !.Status = "PAID",
                                        !.TransactionID = d.v.TransID,
                                        !.CardNumber = d.v.CardNumber,
                                        !.CID = d.v.CID,
                                        !.UpdatedAt = now,
                                        !.CompletedAt = [at |-> now]])
                 ELSE Go(g, "idle", Nil)
    /\ UNCHANGED transactions

\* a callback that marks the record completed
CallbackChangesCompleting(tx, status, t) ==
    [tx EXCEPT !.Status = status, !.UpdatedAt = t, !.CompletedAt = [at |-> t]]

\* handleCallback: the assignments to the record it read
CallbackChanges(tx, status, t) == [tx EXCEPT !.Status = status, !.UpdatedAt = t]

\* handleCallback up to the record it changes: the form values and
\* GetTransaction
GoHandleCallback(g) ==
    /\ now < MaxSteps
    /\ goroutines[g].pc = "idle"
    /\ \E token \in {"", "tok1"}, status \in {"", "OK"} :
          LET got == GetTransaction(transactions, token)
          IN  IF token # "" /\ got.err = NoError
              THEN Go(g, "update", CallbackChanges(got.tx, status, now))
              ELSE Go(g, "idle", Nil)
    /\ UNCHANGED <<transactions, verified>>

\* c.storage.UpdateTransaction(ctx, transaction)
GoUpdateTransaction(g) ==
    /\ now < MaxSteps
    /\ goroutines[g].pc = "update"
    /\ transactions' = UpdateTransaction(transactions, goroutines[g].tx, now).store
    /\ Go(g, "idle", Nil)
    /\ UNCHANGED verified

InitGoroutines ==
    /\ transactions = NoTransactions
    /\ now = 0
    /\ last = NoCall
    /\ goroutines = <<Idle, Idle>>
    /\ mutex = RWMutex({}, {})
    /\ verified = {}
    /\ objects = <<>>
    /\ maps = <<>>
    /\ config = DefaultConfig
    /\ router = [p \in {} |-> Nil]
    /\ clients = NewClients(router)
    /\ clock = 0
    /\ served = <<>>

NextGoroutines ==
    \/ \E g \in DOMAIN goroutines : GoInitiatePayment(g)
    \/ \E g \in DOMAIN goroutines : GoStoreTransaction(g)
    \/ \E g \in DOMAIN goroutines : GoVerifyPayment(g)
    \/ \E g \in DOMAIN goroutines : GoHandleCallback(g)
    \/ \E g \in DOMAIN goroutines : GoUpdateTransaction(g)

SpecGoroutines == InitGoroutines /\ [][NextGoroutines]_vars

----------------------------------------------------------------------------
(* The methods of MemoryStorage at the level of their mutex operations.    *)
(* A write of the map takes two steps, between which the record is partly  *)
(* written; a read copies what it finds.                                   *)

\* a goroutine inside a method of MemoryStorage: the method, where it is,
\* the record it was given and the records it has read
Thread(pc, op, tx, seen) == [pc |-> pc, op |-> op, tx |-> tx, seen |-> seen]

\* an RLock that does not wait for the writer
CanRLockBesideWriter(m) == m.readers \subseteq m.readers

\* s.mutex.Lock() returns when no goroutine holds the mutex
CanLock(m) == m.writer = {} /\ m.readers = {}

\* s.mutex.RLock() returns when no writer holds the mutex
CanRLock(m) == m.writer = {}

\* a record of which only ID and Token are written yet
PartlyWritten(tx) == Transaction(tx.ID, tx.Token, 0, "", 0)

Mu(g, thread) ==
    /\ goroutines' = [goroutines EXCEPT ![g] = thread]
    /\ UNCHANGED <<now, last, config, router, clients, clock, served, verified,
                 objects, maps>>

\* a call of StoreTransaction, UpdateTransaction, GetTransaction or
\* GetTransactionsByStatus, up to its Lock or RLock
MuCall(g) ==
    /\ goroutines[g].pc = "idle"
    /\ \E op \in {"StoreTransaction", "UpdateTransaction", "GetTransaction",
                   "GetTransactionsByStatus"}, status \in {"INIT", "PAID"} :
          Mu(g, Thread(IF op \in {"StoreTransaction", "UpdateTransaction"}
                       THEN "Lock" ELSE "RLock",
                       op, Transaction("1", "tok1", MinAmount, status, 0), {}))
    /\ UNCHANGED <<transactions, mutex>>

MuLock(g) ==
    /\ goroutines[g].pc = "Lock"
    /\ CanLock(mutex)
    /\ mutex' = RWMutex({g}, mutex.readers)
    /\ Mu(g, [goroutines[g] EXCEPT !.pc = "write"])
    /\ UNCHANGED transactions

\* the writer starts to write the map; UpdateTransaction returns an error
\* when the token has no record
MuWriteBegin(g) ==
    LET tx == goroutines[g].tx
        missing == goroutines[g].op = "UpdateTransaction" /\ tx.Token \notin DOMAIN transactions
    IN  /\ goroutines[g].pc = "write"
        /\ transactions' = IF missing THEN transactions
                           ELSE (tx.Token :> PartlyWritten(tx)) @@ transactions
        /\ Mu(g, [goroutines[g] EXCEPT !.pc = IF missing THEN "Unlock" ELSE "writing"])
        /\ UNCHANGED mutex

\* the writer has written the map
MuWriteEnd(g) ==
    LET tx == goroutines[g].tx
    IN  /\ goroutines[g].pc = "writing"
        /\ transactions' = IF goroutines[g].op = "UpdateTransaction"
                           THEN UpdateTransaction(transactions, tx, now).store
                           ELSE StoreTransaction(transactions, tx).store
        /\ Mu(g, [goroutines[g] EXCEPT !.pc = "Unlock"])
        /\ UNCHANGED mutex

\* defer s.mutex.Unlock()
MuUnlock(g) ==
    /\ goroutines[g].pc = "Unlock"
    /\ mutex' = RWMutex(mutex.writer \ {g}, mutex.readers)
    /\ Mu(g, Thread("idle", "none", Nil, goroutines[g].seen))
    /\ UNCHANGED transactions

MuRLock(g) ==
    /\ goroutines[g].pc = "RLock"
    /\ CanRLock(mutex)
    /\ mutex' = RWMutex(mutex.writer, mutex.readers \cup {g})
    /\ Mu(g, [goroutines[g] EXCEPT !.pc = "read"])
    /\ UNCHANGED transactions

\* the reader copies the record of the token, or the records of the status
MuRead(g) ==
    LET tx == goroutines[g].tx
        found == {t \in DOMAIN transactions :
                    IF goroutines[g].op = "GetTransaction"
                    THEN t = tx.Token
                    ELSE transactions[t].Status = tx.Status}
    IN  /\ goroutines[g].pc = "read"
        /\ Mu(g, [goroutines[g] EXCEPT !.pc = "RUnlock",
                                       !.seen = {transactions[t] : t \in found}])
        /\ UNCHANGED <<transactions, mutex>>

\* defer s.mutex.RUnlock()
MuRUnlock(g) ==
    /\ goroutines[g].pc = "RUnlock"
    /\ mutex' = RWMutex(mutex.writer, mutex.readers \ {g})
    /\ Mu(g, Thread("idle", "none", Nil, goroutines[g].seen))
    /\ UNCHANGED transactions

InitMutex ==
    /\ transactions = NoTransactions
    /\ now = 0
    /\ last = NoCall
    /\ goroutines = [g \in 1..3 |-> Thread("idle", "none", Nil, {})]
    /\ mutex = RWMutex({}, {})
    /\ verified = {}
    /\ objects = <<>>
    /\ maps = <<>>
    /\ config = DefaultConfig
    /\ router = [p \in {} |-> Nil]
    /\ clients = NewClients(router)
    /\ clock = 0
    /\ served = <<>>

NextMutex ==
    \/ \E g \in DOMAIN goroutines : MuCall(g)
    \/ \E g \in DOMAIN goroutines : MuLock(g)
    \/ \E g \in DOMAIN goroutines : MuWriteBegin(g)
    \/ \E g \in DOMAIN goroutines : MuWriteEnd(g)
    \/ \E g \in DOMAIN goroutines : MuUnlock(g)
    \/ \E g \in DOMAIN goroutines : MuRLock(g)
    \/ \E g \in DOMAIN goroutines : MuRead(g)
    \/ \E g \in DOMAIN goroutines : MuRUnlock(g)

SpecMutex == InitMutex /\ [][NextMutex]_vars

----------------------------------------------------------------------------
(* One rate limiter handling requests of one IP in several goroutines, all *)
(* at the same clock reading.  The limiter takes no lock: its statements   *)
(* interleave, each read and each write of the map and of a client record  *)
(* being one step.  `clients` is the map from the IP to a pointer, with    *)
(* the client records the pointers point to; the runtime may end the       *)
(* process when a write of the map meets another access of it.             *)

\* a goroutine inside the limiter: where it is, what clients[ip] gave it
\* and the count it has loaded
Handling(pc, exists, c, count) == [pc |-> pc, exists |-> exists, c |-> c, count |-> count]

RaceIP == "10.0.0.1"
RaceLimiter == router["/limited"].m

Rl(g, handling) ==
    /\ goroutines' = [goroutines EXCEPT ![g] = handling]
    /\ UNCHANGED <<transactions, now, last, config, router, clock, mutex, verified,
                 objects, maps>>

\* the response of goroutine g's request: the handler's, or the 429
RlRespond(admit) ==
    LET x == Enter(Exchange(Plain("GET", "/limited", RaceIP), NoClients), "RateLimit")
        env == [config |-> config, now |-> clock, handlerStatus |-> 200]
    IN  served' = Append(served,
                         IF admit THEN ServeHandler(HandlerFunc("handler"), x, env)
                         ELSE HTTPError(x, "Rate limit exceeded", 429))

\* ip := getClientIP(r); now := time.Now()
RlArrive(g) ==
    /\ goroutines[g].pc = "idle"
    /\ Rl(g, [goroutines[g] EXCEPT !.pc = "lookup"])
    /\ UNCHANGED <<clients, served>>

\* c, exists := clients[ip] and the test of line 86
RlLookup(g) ==
    LET exists == RaceIP \in DOMAIN clients.map
        c == IF exists THEN clients.map[RaceIP] ELSE 0
        lastSeen == IF exists THEN clients.heap[c].lastSeen ELSE 0
    IN  /\ goroutines[g].pc = "lookup"
        /\ Rl(g, Handling(IF WindowPassed(exists, lastSeen, clock, RaceLimiter.window)
                          THEN "reset" ELSE "touch",
                          exists, c, 0))
        /\ UNCHANGED <<clients, served>>

\* clients[ip] = &client{count: 1, lastSeen: now}; next(w, r)
RlReset(g) ==
    /\ goroutines[g].pc = "reset"
    /\ clients' = [map |-> Put(clients.map, RaceIP, Len(clients.heap) + 1),
                   heap |-> Append(clients.heap, [count |-> 1, lastSeen |-> clock])]
    /\ RlRespond(TRUE)
    /\ Rl(g, [goroutines[g] EXCEPT !.pc = "done"])

\* c.lastSeen = now
RlTouch(g) ==
    /\ goroutines[g].pc = "touch"
    /\ clients' = [clients EXCEPT !.heap[goroutines[g].c].lastSeen = clock]
    /\ Rl(g, [goroutines[g] EXCEPT !.pc = "load"])
    /\ UNCHANGED served

\* c.count++, the read
RlLoad(g) ==
    /\ goroutines[g].pc = "load"
    /\ Rl(g, [goroutines[g] EXCEPT !.pc = "store",
                                   !.count = clients.heap[goroutines[g].c].count])
    /\ UNCHANGED <<clients, served>>

\* c.count++, the write
RlStore(g) ==
    /\ goroutines[g].pc = "store"
    /\ clients' = [clients EXCEPT !.heap[goroutines[g].c].count = goroutines[g].count + 1]
    /\ Rl(g, [goroutines[g] EXCEPT !.pc = "check"])
    /\ UNCHANGED served

\* if c.count > limit: the 429, else next(w, r)
RlCheck(g) ==
    /\ goroutines[g].pc = "check"
    /\ RlRespond(~LimitExceeded(clients.heap[goroutines[g].c].count, RaceLimiter.limit))
    /\ Rl(g, [goroutines[g] EXCEPT !.pc = "done"])
    /\ UNCHANGED clients

\* fatal error: concurrent map writes / concurrent map read and map write
RlFatal ==
    /\ \E g \in DOMAIN goroutines, h \in DOMAIN goroutines :
          /\ g # h
          /\ goroutines[g].pc = "reset"
          /\ goroutines[h].pc \in {"lookup", "reset"}
    /\ goroutines' = [g \in DOMAIN goroutines |-> [goroutines[g] EXCEPT !.pc = "fatal"]]
    /\ UNCHANGED <<transactions, now, last, config, router, clock, mutex, verified,
                 objects, maps>>
    /\ UNCHANGED <<clients, served>>

InitRateRace ==
    /\ transactions = NoTransactions
    /\ now = 0
    /\ last = NoCall
    /\ goroutines = [g \in 1..3 |-> Handling("idle", FALSE, 0, 0)]
    /\ mutex = RWMutex({}, {})
    /\ verified = {}
    /\ objects = <<>>
    /\ maps = <<>>
    /\ config = DefaultConfig
    /\ \E limit \in 1..MaxLimit :
          router = Harness("/limited", RateLimitMiddleware("/limited", limit, MaxWindow))
    /\ clients = [map |-> NoClients, heap |-> <<>>]
    /\ clock = 0
    /\ served = <<>>

NextRateRace ==
    \/ \E g \in DOMAIN goroutines : RlArrive(g)
    \/ \E g \in DOMAIN goroutines : RlLookup(g)
    \/ \E g \in DOMAIN goroutines : RlReset(g)
    \/ \E g \in DOMAIN goroutines : RlTouch(g)
    \/ \E g \in DOMAIN goroutines : RlLoad(g)
    \/ \E g \in DOMAIN goroutines : RlStore(g)
    \/ \E g \in DOMAIN goroutines : RlCheck(g)
    \/ RlFatal

SpecRateRace == InitRateRace /\ [][NextRateRace]_vars

----------------------------------------------------------------------------
(* C21..C30 *)

\* C21: every error response of a registered endpoint, whether a handler or
\* a rejecting middleware (429, 401, 403) wrote it, has a JSON object as its
\* body, with the boolean status false and a message.
C21_ErrorResponsesAreJSON ==
    \A i \in DOMAIN served :
        (~served[i].panicked /\ served[i].w.status >= 400)
        => /\ served[i].w.header.ContentType = "application/json"
           /\ served[i].w.body.kind = "object"
           /\ served[i].w.body.status = JBool(FALSE)
           /\ served[i].w.body.message.t = "str"

\* the part of C21 that holds: the error responses of the handlers
C21_HandlerErrorsAreJSON ==
    \A i \in DOMAIN served :
        (HandlerRan(served[i]) /\ served[i].w.status >= 400)
        => /\ served[i].w.header.ContentType = "application/json"
           /\ served[i].w.body.kind = "object"
           /\ served[i].w.body.status = JBool(FALSE)
           /\ served[i].w.body.message.t = "str"

\* the fields a payment initiation request violates a rule of
ViolatedInitFields(req) ==
    {f \in {"amount", "callback_url", "description", "mobile", "valid_card_number"} :
        CASE f = "amount" -> req.Amount \notin MinAmount..MaxAmount
          [] f = "callback_url" -> ~urlRegexMatch(req.CallbackURL)
          [] f = "description" -> Len(req.Description) > MaxDescriptionLength
          [] f = "mobile" -> req.Mobile # <<>> /\ ~mobileRegexMatch(req.Mobile)
          [] f = "valid_card_number" ->
                /\ req.ValidCardNumber # <<>>
                /\ LET digits == {i \in DOMAIN req.ValidCardNumber :
                                     IsDigit(req.ValidCardNumber[i])}
                   IN  Cardinality(digits) # 16}

\* the fields a refund request violates a rule of
ViolatedRefundFields(req) ==
    {f \in {"transaction_id", "amount"} :
        CASE f = "transaction_id" -> req.TransactionID = ""
          [] f = "amount" -> req.Amount < 0}

\* C22: ValidatePaymentInitRequest and ValidateRefundRequest return nil
\* exactly when no field rule is violated, and otherwise an aggregate with
\* an entry for every violated field, not only the first.
C22_ValidatorsReportEveryViolatedField ==
    last.op \in {"ValidatePaymentInitRequest", "ValidateRefundRequest"}
    => LET violated == IF last.op = "ValidateRefundRequest"
                       THEN ViolatedRefundFields(last.args)
                       ELSE ViolatedInitFields(last.args)
       IN  /\ (last.value = <<>>) <=> (violated = {})
           /\ {last.value[i].Field : i \in DOMAIN last.value} = violated

\* an initiation request that violates all five rules has been validated
C22_Witness ==
    /\ last.op = "ValidatePaymentInitRequest"
    /\ Cardinality(ViolatedInitFields(last.args)) = 5
    /\ Len(last.value) = 5

\* C23: MaskCardNumber of an input with n >= 4 digits returns n-4 '*'
\* followed by the input's last 4 digits; of an input with fewer than 4
\* digits it returns a text of '*' only, with no digit of the input.
C23_MaskKeepsLastFourDigits ==
    last.op = "MaskCardNumber"
    => LET in == last.args
           out == last.value
           P == {i \in DOMAIN in : IsDigit(in[i])}
           n == Cardinality(P)
       IN  IF n >= 4
           THEN /\ Len(out) = n
                /\ \A j \in 1..(n - 4) : out[j] = "*"
                /\ \A p \in P :
                      LET after == Cardinality({q \in P : q > p})
                      IN  after < 4 => out[n - after] = in[p]
           ELSE /\ out # <<>>
                /\ \A j \in DOMAIN out : out[j] = "*"

\* a 16-digit number written with a blank has been masked to 12 '*' and its
\* last four digits
C23_Witness ==
    /\ last.op = "MaskCardNumber"
    /\ Len(last.args) = 17
    /\ last.value = Chars(12, "*") \o <<"1", "2", "3", "4">>

\* C24: VerifySignature(SignData(d, k), d, k) is true, and
\* VerifySignature(s, d', k') is false whenever exactly one of the
\* signature, the data or the key differs from (SignData(d, k), d, k) by a
\* single character.
C24_AnyDifferenceInvalidates ==
    last.op = "VerifySignature"
    => (last.value <=> last.args.differs = "nothing")

\* two keys of which one is the other with a zero byte at its end
PaddedAlike(k1, k2) == k1 = k2 \o <<NUL>> \/ k2 = k1 \o <<NUL>>

\* C24, amended: VerifySignature(SignData(d, k), d, k) is true, and with
\* exactly one of the three differing by a single character it is false,
\* unless the difference is a zero byte at the end of the key.
C24_DifferenceInvalidatesUpToKeyPadding ==
    last.op = "VerifySignature"
    => (last.value <=> \/ last.args.differs = "nothing"
                       \/ /\ last.args.differs = "key"
                          /\ PaddedAlike(last.args.key, last.args.k))

\* a signature was refused for a key with one character replaced, and one
\* was accepted for the key it was made with
C24_Witness ==
    /\ last.op = "VerifySignature"
    /\ last.args.differs = "key" /\ last.args.by = "substitution"
    /\ last.args.k = <<"k", NUL>>
    /\ ~last.value

\* C25: every record in the store has a non-empty local identifier and a
\* non-empty gateway token.
C25_StoredRecordsHaveIDAndToken ==
    \A t \in DOMAIN transactions :
        transactions[t].ID # "" /\ transactions[t].Token # ""

\* the part of C25 that holds: the local identifier is never empty
C25_StoredRecordsHaveID == \A t \in DOMAIN transactions : transactions[t].ID # ""

\* the gateway answered 2xx with a status flag that says success
GatewaySucceeded(op, reply) ==
    /\ Is2xx(reply)
    /\ reply.body.kind = "object"
    /\ reply.body.status = IF op = "RefundPayment" THEN JBool(TRUE) ELSE JNum(1)

\* C28: a client operation whose gateway call fails (transport error,
\* non-2xx, undecodable body, status flag failure) leaves the store as it
\* was; a record is created only by a successful initiation and becomes
\* PAID only by a successful verification.
C28_FailedGatewayCallLeavesStore ==
    [][last'.op \in ClientOps \cup {"handlePaymentInit"}
       => /\ ~GatewaySucceeded(last'.op, last'.reply) => transactions' = transactions
          /\ DOMAIN transactions' # DOMAIN transactions
                => /\ last'.op \in {"InitiatePayment", "handlePaymentInit"}
                   /\ GatewaySucceeded(last'.op, last'.reply)
          /\ (\E t \in DOMAIN transactions' :
                 /\ transactions'[t].Status = "PAID"
                 /\ t \in DOMAIN transactions => transactions[t].Status # "PAID")
                => /\ last'.op = "VerifyPayment"
                   /\ GatewaySucceeded(last'.op, last'.reply)]_vars

\* a verification of a stored INIT record was answered 2xx with the status
\* flag 0, and the record is still INIT
C28_Witness ==
    /\ last.op = "VerifyPayment"
    /\ Is2xx(last.reply) /\ last.reply.body.status = JNum(0)
    /\ last.err # NoError
    /\ last.token \in DOMAIN transactions
    /\ transactions[last.token].Status = "INIT"

\* C26: for every token, the UpdatedAt of its stored record never
\* decreases, over any sequence or interleaving of initiations,
\* verifications and callbacks.
C26_UpdatedAtNeverDecreases ==
    [][\A t \in DOMAIN transactions \cap DOMAIN transactions' :
          transactions'[t].UpdatedAt >= transactions[t].UpdatedAt]_vars

\* C27: a stored record has CompletedAt set only if a gateway verification
\* for its token has succeeded before (2xx with status 1); initiations and
\* callbacks never set it.
C27_CompletedOnlyAfterVerification ==
    \A t \in DOMAIN transactions :
        transactions[t].CompletedAt # Nil => t \in verified

\* a record with CompletedAt went through a callback after its verification
C27_Witness ==
    \E t \in DOMAIN transactions :
        /\ transactions[t].CompletedAt # Nil
        /\ transactions[t].Status = "OK"
        /\ transactions[t].UpdatedAt > transactions[t].CompletedAt.at

\* the goroutines between Lock and Unlock, and between RLock and RUnlock
Writers == {g \in DOMAIN goroutines : goroutines[g].pc \in {"write", "writing", "Unlock"}}
Readers == {g \in DOMAIN goroutines : goroutines[g].pc \in {"read", "RUnlock"}}

\* C29: in MemoryStorage no writer is inside its critical section at the
\* same time as another writer or a reader, and every reader observes a
\* record either entirely before or entirely after any write.
C29_WritersExcludeEveryone ==
    /\ Cardinality(Writers) <= 1
    /\ Writers # {} => Readers = {}
    /\ \A g \in DOMAIN goroutines :
          \A tx \in goroutines[g].seen : tx.Status \in {"INIT", "PAID"}

\* two readers are inside at the same time, one of them with a record that
\* an update has written
C29_Witness ==
    /\ Cardinality(Readers) = 2
    /\ \E g \in Readers : \E tx \in goroutines[g].seen : tx.Status = "PAID"

\* C30: when several requests of one IP are handled concurrently by one
\* rate limiter, it still admits at most `limit` of them within one
\* window: no increment is lost and no two requests both create the
\* initial counter.
C30_ConcurrentRequestsWithinLimit ==
    Cardinality({i \in DOMAIN served : HandlerRan(served[i])}) <= RaceLimiter.limit

\* how C30 fails: more than `limit` requests are admitted only when two of
\* them created a counter or an increment of the counter was lost
C30_OverLimitOnlyByRace ==
    (\A g \in DOMAIN goroutines : goroutines[g].pc \in {"idle", "done"})
    => \/ Cardinality({i \in DOMAIN served : HandlerRan(served[i])}) <= RaceLimiter.limit
       \/ Len(clients.heap) > 1
       \/ \E c \in DOMAIN clients.heap : clients.heap[c].count < Len(served)

----------------------------------------------------------------------------
(* MemoryStorage called directly (storage.go).  A caller holds Transaction  *)
(* structs by pointer; pointer 0 is nil.  The store keeps the struct        *)
(* `*transaction` evaluates to: every field by value, and for Metadata, a   *)
(* Go map, the address of the map.  Address 0 is the nil map.               *)

MaxObjects == 2
MaxTicks == 1

MetadataKey == "order"
MetadataValues == {"a", "b"}
Statuses == {"INIT", "PAID"}

Deref(p) == IF p = 0 THEN Nil ELSE objects[p]

StorageCall(op, p, token, err, got) ==
    [op |-> op, p |-> p, token |-> token, err |-> err, got |-> got]

\* the transactions a caller builds: ID, token, and the value of the one
\* metadata entry, "" for a transaction without a metadata map
NewTransactions == {<<"id1", "tok1", "a">>, <<"id1", "tok2", "">>, <<"", "tok1", "">>}

\* the caller builds a transaction, with or without a metadata map
StNew ==
    /\ Len(objects) < MaxObjects
    /\ \E new \in NewTransactions :
          LET id == new[1]
              token == new[2]
              value == new[3]
              tx == Transaction(id, token, MinAmount, "INIT", now)
          IN  /\ IF value = ""
                 THEN /\ objects' = Append(objects, tx)
                      /\ maps' = maps
                 ELSE /\ objects' = Append(objects, [tx EXCEPT !.Metadata = Len(maps) + 1])
                      /\ maps' = Append(maps, (MetadataKey :> value))
              /\ last' = StorageCall("new", Len(objects) + 1, token, NoError, <<>>)
    /\ UNCHANGED <<transactions, now, config, router, clients, clock, served>>
    /\ UNCHANGED <<goroutines, mutex, verified>>

StStoreTransaction ==
    /\ \E p \in 0..Len(objects) :
          LET r == StoreTransaction(transactions, Deref(p))
          IN  /\ transactions' = r.store
              /\ last' = StorageCall("StoreTransaction", p, "", r.err, <<>>)
    /\ UNCHANGED <<now, config, router, clients, clock, served>>
    /\ UNCHANGED <<goroutines, mutex, verified, objects, maps>>

\* UpdateTransaction sets UpdatedAt in the caller's struct, then copies it;
\* time.Now() is later than it was at the update before
StUpdateTransaction ==
    /\ \E p \in 0..Len(objects) :
          LET t == now + 1
              r == UpdateTransaction(transactions, Deref(p), t)
          IN  /\ t <= MaxTicks
              /\ transactions' = r.store
              /\ objects' = IF r.err = NoError
                            THEN [objects EXCEPT ![p].UpdatedAt = t]
                            ELSE objects
              /\ last' = StorageCall("UpdateTransaction", p, "", r.err, <<>>)
              /\ now' = IF r.err = NoError THEN t ELSE now
    /\ UNCHANGED <<config, router, clients, clock, served>>
    /\ UNCHANGED <<goroutines, mutex, verified, maps>>

\* GetTransaction hands out a pointer to a fresh struct
StGetTransaction ==
    /\ \E token \in {"", "tok1", "tok2"} :
          LET r == GetTransaction(transactions, token)
          IN  IF r.err = NoError
              THEN /\ Len(objects) < MaxObjects
                   /\ objects' = Append(objects, r.tx)
                   /\ last' = StorageCall("GetTransaction", 0, token, r.err,
                                          <<Len(objects) + 1>>)
              ELSE /\ objects' = objects
                   /\ last' = StorageCall("GetTransaction", 0, token, r.err, <<>>)
    /\ UNCHANGED <<transactions, now, config, router, clients, clock, served>>
    /\ UNCHANGED <<goroutines, mutex, verified, maps>>

\* the orders a range over a Go map can visit the keys in
Orders(S) == {o \in [1..Cardinality(S) -> S] : {o[i] : i \in DOMAIN o} = S}

GetTransactionsByStatus(store, status, order) ==
    [i \in DOMAIN order |-> store[order[i]]]

StGetTransactionsByStatus ==
    /\ \E status \in Statuses :
          \E order \in Orders({t \in DOMAIN transactions : transactions[t].Status = status}) :
             LET result == GetTransactionsByStatus(transactions, status, order)
             IN  /\ Len(objects) + Len(result) <= MaxObjects
                 /\ objects' = objects \o result
                 /\ last' = StorageCall("GetTransactionsByStatus", 0, status, NoError,
                                        [i \in DOMAIN result |-> Len(objects) + i])
    /\ UNCHANGED <<transactions, now, config, router, clients, clock, served>>
    /\ UNCHANGED <<goroutines, mutex, verified, maps>>

\* the caller assigns to a field of a struct it holds
StAssignField ==
    /\ \E p \in DOMAIN objects :
          /\ objects' = [objects EXCEPT ![p].Status = "PAID"]
          /\ last' = StorageCall("caller", p, "", NoError, <<>>)
    /\ UNCHANGED <<transactions, now, config, router, clients, clock, served>>
    /\ UNCHANGED <<goroutines, mutex, verified, maps>>

\* the caller assigns to an entry of the Metadata map of a struct it holds
StAssignMetadata ==
    /\ \E p \in DOMAIN objects :
          /\ objects[p].Metadata # 0
          /\ maps' = [maps EXCEPT ![objects[p].Metadata][MetadataKey] = "b"]
          /\ last' = StorageCall("caller", p, "", NoError, <<>>)
    /\ UNCHANGED <<transactions, now, config, router, clients, clock, served>>
    /\ UNCHANGED <<goroutines, mutex, verified, objects>>

NextStorage ==
    \/ StNew
    \/ StStoreTransaction
    \/ StUpdateTransaction
    \/ StGetTransaction
    \/ StGetTransactionsByStatus
    \/ StAssignField
    \/ StAssignMetadata

SpecStorage == Init /\ [][NextStorage]_vars

----------------------------------------------------------------------------
(* C31..C38 *)

\* the call that has just returned was given nil or a transaction without ID
NilOrNoID(call) == call.p = 0 \/ objects[call.p].ID = ""

\* C31: StoreTransaction and UpdateTransaction given nil or an empty ID, and
\* UpdateTransaction given a token that has no record, return an error and
\* leave the store as it was; GetTransaction of an empty or unknown token
\* returns an error and no record.
C31_RejectedCallsLeaveStore ==
    [][/\ last'.op \in {"StoreTransaction", "UpdateTransaction"} /\ NilOrNoID(last')
          => last'.err # NoError /\ transactions' = transactions
       /\ (/\ last'.op = "UpdateTransaction"
           /\ last'.p # 0
           /\ objects[last'.p].Token \notin DOMAIN transactions)
          => last'.err # NoError /\ transactions' = transactions
       /\ (/\ last'.op = "GetTransaction"
           /\ (last'.token = "" \/ last'.token \notin DOMAIN transactions))
          => /\ last'.err # NoError
             /\ last'.got = <<>>
             /\ objects' = objects
             /\ transactions' = transactions]_vars

\* C31 happens: an update of a well-formed transaction whose token has no
\* record was refused while the store held another record.
C31_Witness ==
    /\ last.op = "UpdateTransaction"
    /\ last.p # 0
    /\ objects[last.p].ID # ""
    /\ objects[last.p].Token \notin DOMAIN transactions
    /\ last.err = Err("transaction not found")
    /\ transactions # NoTransactions

\* what a reader of the store sees: each record with the entries of its map
StoredView ==
    [t \in DOMAIN transactions |->
        [record |-> transactions[t],
         metadata |-> IF transactions[t].Metadata = 0 THEN {}
                      ELSE {maps[transactions[t].Metadata]}]]

\* C32: what the caller does to a transaction it passed to the store, or to
\* one the store handed out, entries of the metadata map included, leaves
\* every stored record as it was.
C32_StoreHoldsPrivateCopies ==
    [][last'.op = "caller" => StoredView' = StoredView]_vars

\* the digits a masked value may end in: at most the last four of the value
MaskOf(value, out) ==
    \/ out = Chars(4, "*")
    \/ \E n \in 0..4 :
          LET digits == sanitizeCardNumber(value)
          IN  /\ n <= Len(digits) /\ n <= Len(out)
              /\ SubSeq(out, Len(out) - n + 1, Len(out))
                    = SubSeq(digits, Len(digits) - n + 1, Len(digits))
              /\ \A i \in 1..(Len(out) - n) : out[i] = "*"

\* C33: in what the default logger writes, every value held under a
\* denylisted key, at the top level or nested in a field value, is '****' or
\* mask characters followed by at most its last four digits.
C33_DenylistedValuesMasked ==
    last.op = "formatLog"
    => \A in \in Leaves(<<>>, last.args) :
          in[1][Len(in[1])] \in sensitiveKeys
          => \E out \in Leaves(<<>>, last.value) :
                out[1] = in[1] /\ MaskOf(in[2], out[2])

\* the part of C33 that holds: values under denylisted keys of the fields
\* map itself and of the map[string]interface{} values nested in it
C33_MaskedInMaps ==
    last.op = "formatLog" /\ (\A k \in DOMAIN last.args : last.args[k].kind # "struct")
    => \A in \in Leaves(<<>>, last.args) :
          in[1][Len(in[1])] \in sensitiveKeys
          => \E out \in Leaves(<<>>, last.value) :
                out[1] = in[1] /\ MaskOf(in[2], out[2])

\* C36: whatever metadata is passed, the amount, api_key and callback_url
\* sent to the gateway are the amount argument, the configured API key and
\* the configured callback URL, and the amount sent is the stored Amount.
C36_MetadataLeavesRequestFields ==
    last.op = "InitiatePayment"
    => /\ last.value.sent["amount"] = JNum(last.args.amount)
       /\ last.value.sent["api_key"] = JStr(APIKey)
       /\ last.value.sent["callback_url"] = JStr(CallbackURL)
       /\ \A t \in DOMAIN last.value.result.store :
             last.value.sent["amount"] = JNum(last.value.result.store[t].Amount)

\* goroutine g is in c.storage.UpdateTransaction, which returns in this step
Updating(g) == goroutines[g].pc = "update" /\ goroutines'[g].pc = "idle"

\* C34: a verification and a callback for one token running concurrently
\* do not overwrite each other's update with stale data: no UpdateTransaction
\* of either takes CompletedAt or the fields the verification wrote from the
\* stored record.
C34_UpdatesKeepVerification ==
    [][\A g \in DOMAIN goroutines :
          Updating(g)
          => \A t \in DOMAIN transactions :
                transactions[t].CompletedAt # Nil
                => /\ transactions'[t].CompletedAt # Nil
                   /\ transactions'[t].TransactionID = transactions[t].TransactionID
                   /\ transactions'[t].CardNumber = transactions[t].CardNumber
                   /\ transactions'[t].CID = transactions[t].CID]_vars

\* C35: a stored record with status PAID keeps the status PAID and its
\* CompletedAt through every later operation.
C35_PaidStaysPaid ==
    [][\A t \in DOMAIN transactions :
          transactions[t].Status = "PAID"
          => /\ t \in DOMAIN transactions'
             /\ transactions'[t].Status = "PAID"
             /\ transactions'[t].CompletedAt # Nil]_vars

\* C38: every stored transaction has a non-empty status.
C38_StatusNeverEmpty ==
    \A t \in DOMAIN transactions : transactions[t].Status # ""

\* C37: with either ConfigInterface implementation, a request to
\* /payments/callback ends with the callback handler invoked or with a 403,
\* one of the two, and the IP filter aborts it in no other way.
C37_CallbackHandledOrForbidden ==
    \A i \in 1..Len(served) :
        served[i].r.Path = "/payments/callback"
        => /\ ~served[i].panicked
           /\ HandlerRan(served[i]) # Rejected(served[i], 403)

\* C37 for a client built with the value NewConfig returns
C37_OnConfigImpl == config.impl = "configImpl" => C37_CallbackHandledOrForbidden

====
